---- MODULE Spec2Model ----
(***************************************************************************)
(* Verification model of the CommonLowLevelTracingKit trace decoder and    *)
(* live-merge engine.                                                      *)
(*                                                                         *)
(*   SpecLive : the Live Merge Engine (poll / merge / drain loop);         *)
(*              SpecLivePolling, SpecLiveLate and SpecLiveStop are         *)
(*              sessions of it with scheduled steps.                       *)
(*   SpecRing : the ring walk of Ringbuffer.__init__ (clltk_decoder.py).   *)
(*   SpecTb   : the entry resolution loop of Tracebuffer.__init__.         *)
(*   SpecBatch, SpecWorker : __main__ decoding several files.              *)
(*   SpecWrap, SpecCrc, SpecStatic, SpecDecode, SpecNum, SpecFormat :      *)
(*              single functions of the decoder applied to bounded inputs. *)
(***************************************************************************)
EXTENDS Integers, Sequences, FiniteSets, TLC

(***************************************************************************)
(* Bounds of the model.                                                    *)
(***************************************************************************)
MaxEvents == 2      \* entries written over all sources of a live session
MaxTime   == 3      \* last clock value of a live session (poll ticks)

Sources    == {1, 2}        \* monitored trace files
Capacities == {0, 1, 2}     \* --buffer-size values, 0 = unlimited
Delays     == {0, 1}        \* --order-delay values, in clock units

VARIABLES
  \* ---- Live Merge Engine ------------------------------------------------
  phase,      \* "Idle", "Polling", "Draining", "Stopped"
  tickStep,   \* position inside one poll tick: "wait", "scan"
  now,        \* the clock
  cancel,     \* the cancellation signal has been sent
  capacity,   \* configured pending-set capacity, 0 = unlimited
  orderDelay, \* configured reorder window
  exists,     \* exists[s]: the file of source s exists
  log,        \* log[s]: timestamps of the entries written to source s
  cursor,     \* cursor[s]: number of entries of s already read
  scanned,    \* sources already scanned in the current tick
  newest,     \* newest[s]: largest timestamp read from s so far, -1 if none
  fresh,      \* events read in this tick, not yet inserted
  pending,    \* the pending set (priority structure keyed by timestamp)
  out,        \* the emitted sequence
  evicted,    \* the events evicted under overflow
  read, output, dropped, hwm,   \* the summary counters
  peak,       \* history: largest size the pending set had after an insertion
  atDrain,    \* history: the pending set when Draining began
  \* ---- Ring Buffer Reader (Ringbuffer.__init__) --------------------------
  rb,              \* the ring buffer region handed to the reader
  rpc,             \* "off", "load", "walk", "done", "raised"
  last_valid,      \* the walk's cursor
  start_positions, \* cursor values already processed
  entries,         \* the entries found so far
  ringbuffer_valid,\* FALSE while the walk is inside a run of invalid positions
  warnings,        \* number of "missing ringbuffer entry" warnings logged
  missing,         \* the missing-entries estimate, -1 until computed
  \* ---- Entry Resolver (Tracebuffer.__init__) ------------------------------
  tb,         \* the file: raw bytes and what has been parsed of it
  tpc,        \* "off", "header", "ring", "stack", "resolve", "done", "raised"
  tpos,       \* index of the ring entry resolved next
  tb_entries, \* Tracebuffer.entries: the events of the file
  \* ---- Batch decoding (__main__) -------------------------------------------
  batch,       \* the input files, one future each
  fut,         \* fut[f]: "queued", "done" (the worker returned), "collected"
  result,      \* result[f]: what the worker of f returned
  worker_exit_code, \* worker_exit_code[f]: exit_code in the process of f's worker
  tracebuffers,\* the results in the order as_completed handed them over
  csv_data,    \* the rows of the output
  exit_code,   \* exit_code in the main process
  bpc,         \* "off", "pool", "written", "exited"
  \* ---- Ring Buffer Reader on a wrapping and on a flat ring -----------------
  wring,       \* a ring whose frames start at any position of the body
  fring,       \* the ring holding the same frames from position 0 on
  wentries,    \* what Ringbuffer.__init__ made of wring
  fentries,    \* what Ringbuffer.__init__ made of fring
  wpc,         \* "off", "wrapped", "flat", "done"
  \* ---- crc8 on a span and on the span with one bit flipped -----------------
  span,        \* the bytes handed to crc8
  flipped,     \* the span with one bit flipped
  residue,     \* crc8(span), -1 until computed
  flipped_residue, \* crc8(flipped), -1 until computed
  cpc,         \* "off", "span", "flip", "done"
  \* ---- Entry Resolver on static entries with arguments ---------------------
  sfile,       \* the file: its metadata record, its ring entries, what was logged
  spos,        \* the ring entry the loop of Tracebuffer.__init__ is at
  sentries,    \* Tracebuffer.entries
  sargs,       \* the args of the StaticTraceentry objects appended
  spc,         \* "off", "resolve", "done", "raised"
  \* ---- a function of the decoder applied to one input ----------------------
  arg,         \* the input
  val,         \* what the function returned
  apc,         \* "off", the name of the function still to apply, "done"
  \* ---- one worker process decoding several files ----------------------------
  current_Endian,  \* the global current_Endian: "none", "little", "big"
  current_version, \* the global current_version: <<major, minor>>
  wqueue,      \* the files the worker still has to decode, the first one in work
  wraw,        \* raw in Tracebuffer.__init__ of the file in work
  wresults,    \* what genTracebuffer returned, file by file
  wkpc         \* "off", "magic", "version", "body", "idle"

liveVars == <<phase, tickStep, now, cancel, capacity, orderDelay, exists, log,
              cursor, scanned, newest, fresh, pending, out, evicted,
              read, output, dropped, hwm, peak, atDrain>>

ringVars == <<rb, rpc, last_valid, start_positions, entries, ringbuffer_valid,
              warnings, missing>>

tbVars == <<tb, tpc, tpos, tb_entries>>

batchVars == <<batch, fut, result, worker_exit_code, tracebuffers, csv_data,
               exit_code, bpc>>

wrapVars == <<wring, fring, wentries, fentries, wpc>>

crcVars == <<span, flipped, residue, flipped_residue, cpc>>

staticVars == <<sfile, spos, sentries, sargs, spc>>

applyVars == <<arg, val, apc>>

workerVars == <<current_Endian, current_version, wqueue, wraw, wresults, wkpc>>

vars == <<liveVars, ringVars, tbVars, batchVars, wrapVars, crcVars, staticVars,
          applyVars, workerVars>>

NotLive == <<ringVars, tbVars, batchVars, wrapVars, crcVars, staticVars, applyVars, workerVars>>
NotRing == <<liveVars, tbVars, batchVars, wrapVars, crcVars, staticVars, applyVars, workerVars>>
NotTb == <<liveVars, ringVars, batchVars, wrapVars, crcVars, staticVars, applyVars, workerVars>>
NotBatch == <<liveVars, ringVars, tbVars, wrapVars, crcVars, staticVars, applyVars, workerVars>>
NotWrap == <<liveVars, ringVars, tbVars, batchVars, crcVars, staticVars, applyVars, workerVars>>
NotCrc == <<liveVars, ringVars, tbVars, batchVars, wrapVars, staticVars, applyVars, workerVars>>
NotStatic == <<liveVars, ringVars, tbVars, batchVars, wrapVars, crcVars, applyVars, workerVars>>
NotApply == <<liveVars, ringVars, tbVars, batchVars, wrapVars, crcVars, staticVars, workerVars>>
NotWorker == <<liveVars, ringVars, tbVars, batchVars, wrapVars, crcVars, staticVars, applyVars>>

\* the one element of a one-element set: Only({ F(x) : x \in {e} }) is F(e)
\* with e evaluated once, before F
Only(S) == CHOOSE x \in S : TRUE
Max(a, b) == IF a >= b THEN a ELSE b
Min(a, b) == IF a <= b THEN a ELSE b

(***************************************************************************)
(* Live Merge Engine                                                       *)
(***************************************************************************)

\* an ordering key that breaks ties by arrival before source
LessArrivalFirst(e, f) ==
  \/ e.ts < f.ts
  \/ e.ts = f.ts /\ e.arr < f.arr
  \/ e.ts = f.ts /\ e.arr = f.arr /\ e.src < f.src

\* ordering key of the pending set: timestamp, then source, then arrival
Less(e, f) ==
  \/ e.ts < f.ts
  \/ e.ts = f.ts /\ e.src < f.src
  \/ e.ts = f.ts /\ e.src = f.src /\ e.arr < f.arr

MaxEvent(P) == CHOOSE e \in P : \A f \in P \ {e} : Less(f, e)

MinEvent(P) == CHOOSE e \in P : \A f \in P \ {e} : Less(e, f)

\* the k largest events of P: an overflow policy that evicts the newest
RECURSIVE Largest(_, _)
Largest(P, k) ==
  IF k = 0 \/ P = {} THEN {}
  ELSE LET m == MaxEvent(P) IN {m} \cup Largest(P \ {m}, k - 1)

\* the k smallest events of P
RECURSIVE Smallest(_, _)
Smallest(P, k) ==
  IF k = 0 \/ P = {} THEN {}
  ELSE LET m == MinEvent(P) IN {m} \cup Smallest(P \ {m}, k - 1)

\* overflow policy without the "0 = unlimited" case
EvictSetNoUnlimited(P) ==
  IF Cardinality(P) <= capacity THEN {}
  ELSE Smallest(P, Cardinality(P) - capacity)

\* overflow policy: the events to evict from P
EvictSet(P) ==
  IF capacity = 0 \/ Cardinality(P) <= capacity THEN {}
  ELSE Smallest(P, Cardinality(P) - capacity)

\* high water mark measured on the inserted set, before the eviction
HighWaterBeforeEvict(h, ins, kept) == Max(h, Cardinality(ins))

\* high water mark after an insertion: ins was inserted, kept survived the eviction
HighWater(h, ins, kept) == Max(h, Cardinality(kept))

\* eligibility by age alone: the sources are not looked at
EligibleByAge(e) == e.ts + orderDelay < now

\* an event may leave the pending set: it is older than now - order_delay and
\* every source has produced a newer event or has been polled since insertion
Eligible(e) ==
  /\ e.ts + orderDelay < now
  /\ \A s \in e.waiting : newest[s] > e.ts

\* every eligible event of P in ascending order, whatever is pending before it
RECURSIVE EmitAllEligible(_)
EmitAllEligible(P) ==
  IF P = {} THEN <<>>
  ELSE LET m == MinEvent(P) IN
       IF Eligible(m) THEN <<m>> \o EmitAllEligible(P \ {m})
       ELSE EmitAllEligible(P \ {m})

\* a merge that emits nothing: emission is left to the drain
EmitNothing(P) == <<>>

\* the events emitted by one merge: pop the minimum while it is eligible
RECURSIVE EmitSeq(_)
EmitSeq(P) ==
  IF P = {} THEN <<>>
  ELSE LET m == MinEvent(P) IN
       IF Eligible(m) THEN <<m>> \o EmitSeq(P \ {m}) ELSE <<>>

Range(q) == {q[i] : i \in 1..Len(q)}

Core(e) == [ts |-> e.ts, src |-> e.src, idx |-> e.idx, arr |-> e.arr]
Emitted(e, r) == [ts |-> e.ts, src |-> e.src, idx |-> e.idx, arr |-> e.arr, seenAt |-> r]
Inserted(e) == [ts |-> e.ts, src |-> e.src, idx |-> e.idx, arr |-> e.arr, waiting |-> Sources]

Written == Len(log[1]) + Len(log[2])

InitLive ==
  /\ phase = "Idle" /\ tickStep = "wait" /\ now = 0 /\ cancel = FALSE
  /\ capacity \in Capacities /\ orderDelay \in Delays
  /\ exists = [s \in Sources |-> s = 1]
  /\ log = [s \in Sources |-> <<>>]
  /\ cursor = [s \in Sources |-> 0]
  /\ scanned = {}
  /\ newest = [s \in Sources |-> -1]
  /\ fresh = {} /\ pending = {} /\ out = <<>> /\ evicted = {}
  /\ read = 0 /\ output = 0 /\ dropped = 0 /\ hwm = 0 /\ peak = 0
  /\ atDrain = {}

\* What a producer does to the file of s is seen by the engine at the next scan
\* of s: the producers' steps are placed before the start of the engine or
\* inside a tick ahead of the scan of s.
Visible(s) ==
  \/ phase = "Idle"
  \/ phase = "Polling" /\ ~cancel /\ tickStep = "scan" /\ s \notin scanned

\* a producer appends an entry stamped ts to the file of source s
Write(s, ts) ==
  /\ Visible(s) /\ exists[s] /\ Written < MaxEvents /\ ts <= now
  /\ log' = [log EXCEPT ![s] = Append(@, ts)]
  /\ UNCHANGED <<phase, tickStep, now, cancel, capacity, orderDelay, exists,
                 cursor, scanned, newest, fresh, pending, out, evicted,
                 read, output, dropped, hwm, peak, atDrain>>
  /\ UNCHANGED NotLive

\* the file of source s is created after the engine was configured
Create(s) ==
  /\ ~exists[s] /\ Visible(s)
  /\ exists' = [exists EXCEPT ![s] = TRUE]
  /\ UNCHANGED <<phase, tickStep, now, cancel, capacity, orderDelay, log,
                 cursor, scanned, newest, fresh, pending, out, evicted,
                 read, output, dropped, hwm, peak, atDrain>>
  /\ UNCHANGED NotLive

Start ==
  /\ phase = "Idle"
  /\ phase' = "Polling"
  /\ UNCHANGED <<tickStep, now, cancel, capacity, orderDelay, exists, log,
                 cursor, scanned, newest, fresh, pending, out, evicted,
                 read, output, dropped, hwm, peak, atDrain>>
  /\ UNCHANGED NotLive

\* the poll timer fires: one poll interval has passed. The modelled clock
\* stops at MaxTime; the polling goes on.
BeginTick ==
  /\ phase = "Polling" /\ tickStep = "wait" /\ ~cancel
  /\ now' = IF now < MaxTime THEN now + 1 ELSE now
  /\ tickStep' = "scan" /\ scanned' = {}
  /\ UNCHANGED <<phase, cancel, capacity, orderDelay, exists, log, cursor,
                 newest, fresh, pending, out, evicted,
                 read, output, dropped, hwm, peak, atDrain>>
  /\ UNCHANGED NotLive

\* a scan without a cursor: every entry of the file counts as new on every tick
ScanAll(s) ==
  /\ phase = "Polling" /\ ~cancel /\ tickStep = "scan"
  /\ s \notin scanned /\ \A r \in Sources : r < s => r \in scanned
  /\ LET n    == IF exists[s] THEN Len(log[s]) ELSE 0
         got  == {[ts |-> log[s][k], src |-> s, idx |-> k,
                   arr |-> read + k] : k \in 1..n}
     IN /\ fresh' = fresh \cup got
        /\ read' = read + n
        /\ cursor' = [cursor EXCEPT ![s] = n]
        /\ newest' = [newest EXCEPT ![s] =
                        IF n = 0 THEN @
                        ELSE Max(@, CHOOSE t \in {e.ts : e \in got} :
                                       \A e \in got : e.ts <= t)]
  /\ pending' = {[e EXCEPT !.waiting = @ \ {s}] : e \in pending}
  /\ scanned' = scanned \cup {s}
  /\ UNCHANGED <<phase, tickStep, now, cancel, capacity, orderDelay, exists, log,
                 out, evicted, output, dropped, hwm, peak, atDrain>>
  /\ UNCHANGED NotLive

\* a scan that looks for the files at the first tick only: a source without a
\* file then is not looked at again
ScanFirstTick(s) ==
  /\ phase = "Polling" /\ ~cancel /\ tickStep = "scan"
  /\ s \notin scanned /\ \A r \in Sources : r < s => r \in scanned
  /\ LET n    == IF exists[s] /\ (now = 1 \/ cursor[s] > 0)
                 THEN Len(log[s]) - cursor[s] ELSE 0
         got  == {[ts |-> log[s][cursor[s] + k], src |-> s, idx |-> cursor[s] + k,
                   arr |-> read + k] : k \in 1..n}
     IN /\ fresh' = fresh \cup got
        /\ read' = read + n
        /\ cursor' = [cursor EXCEPT ![s] = @ + n]
        /\ newest' = [newest EXCEPT ![s] =
                        IF n = 0 THEN @
                        ELSE Max(@, CHOOSE t \in {e.ts : e \in got} :
                                       \A e \in got : e.ts <= t)]
  /\ pending' = {[e EXCEPT !.waiting = @ \ {s}] : e \in pending}
  /\ scanned' = scanned \cup {s}
  /\ UNCHANGED <<phase, tickStep, now, cancel, capacity, orderDelay, exists, log,
                 out, evicted, output, dropped, hwm, peak, atDrain>>
  /\ UNCHANGED NotLive

\* Scanning: re-read source s; the entries past its cursor are new
Scan(s) ==
  /\ phase = "Polling" /\ ~cancel /\ tickStep = "scan"
  /\ s \notin scanned /\ \A r \in Sources : r < s => r \in scanned
  /\ LET n    == IF exists[s] THEN Len(log[s]) - cursor[s] ELSE 0
         got  == {[ts |-> log[s][cursor[s] + k], src |-> s, idx |-> cursor[s] + k,
                   arr |-> read + k] : k \in 1..n}
     IN /\ fresh' = fresh \cup got
        /\ read' = read + n
        /\ cursor' = [cursor EXCEPT ![s] = @ + n]
        /\ newest' = [newest EXCEPT ![s] =
                        IF n = 0 THEN @
                        ELSE Max(@, CHOOSE t \in {e.ts : e \in got} :
                                       \A e \in got : e.ts <= t)]
  /\ pending' = {[e EXCEPT !.waiting = @ \ {s}] : e \in pending}
  /\ scanned' = scanned \cup {s}
  /\ UNCHANGED <<phase, tickStep, now, cancel, capacity, orderDelay, exists, log,
                 out, evicted, output, dropped, hwm, peak, atDrain>>
  /\ UNCHANGED NotLive

\* Merging: insert the new events, apply the overflow policy, emit what is eligible
Merge ==
  /\ phase = "Polling" /\ ~cancel /\ tickStep = "scan" /\ scanned = Sources
  /\ LET ins  == pending \cup {Inserted(e) : e \in fresh}
         ev   == EvictSet(ins)
         kept == ins \ ev
         em   == EmitSeq(kept)
     IN /\ pending' = kept \ Range(em)
        /\ evicted' = evicted \cup {Core(e) : e \in ev}
        /\ dropped' = dropped + Cardinality(ev)
        /\ hwm' = HighWater(hwm, ins, kept)
        /\ out' = out \o [i \in 1..Len(em) |-> Emitted(em[i], read)]
        /\ output' = output + Len(em)
        /\ peak' = Max(peak, Cardinality(kept))
  /\ fresh' = {}
  /\ tickStep' = "wait"
  /\ UNCHANGED <<phase, now, cancel, capacity, orderDelay, exists, log, cursor,
                 scanned, newest, read, atDrain>>
  /\ UNCHANGED NotLive

\* the shutdown signal arrives
Cancel ==
  /\ phase = "Polling" /\ ~cancel
  /\ cancel' = TRUE
  /\ UNCHANGED <<phase, tickStep, now, capacity, orderDelay, exists, log, cursor,
                 scanned, newest, fresh, pending, out, evicted,
                 read, output, dropped, hwm, peak, atDrain>>
  /\ UNCHANGED NotLive

\* a shutdown that discards what is pending and stops at once
BeginDrainDiscard ==
  /\ phase = "Polling" /\ cancel
  /\ pending' = {} /\ fresh' = {}
  /\ phase' = "Stopped" /\ tickStep' = "wait"
  /\ UNCHANGED <<now, cancel, capacity, orderDelay, exists, log, cursor,
                 scanned, newest, out, evicted, read, output, dropped, hwm,
                 peak, atDrain>>
  /\ UNCHANGED NotLive

\* the loop observes the signal: what was read is inserted, Draining begins
BeginDrain ==
  /\ phase = "Polling" /\ cancel
  /\ LET ins  == pending \cup {Inserted(e) : e \in fresh}
         ev   == EvictSet(ins)
         kept == ins \ ev
     IN /\ pending' = kept
        /\ evicted' = evicted \cup {Core(e) : e \in ev}
        /\ dropped' = dropped + Cardinality(ev)
        /\ hwm' = HighWater(hwm, ins, kept)
        /\ peak' = Max(peak, Cardinality(kept))
        /\ atDrain' = {Core(e) : e \in kept}
  /\ fresh' = {}
  /\ phase' = "Draining" /\ tickStep' = "wait"
  /\ UNCHANGED <<now, cancel, capacity, orderDelay, exists, log, cursor,
                 scanned, newest, out, read, output>>
  /\ UNCHANGED NotLive

\* a drain that honours the delay window: what is not eligible is discarded
DrainStepWindow ==
  /\ phase = "Draining" /\ pending # {}
  /\ LET m == MinEvent(pending)
     IN /\ pending' = pending \ {m}
        /\ out' = IF Eligible(m) THEN Append(out, Emitted(m, read)) ELSE out
        /\ output' = IF Eligible(m) THEN output + 1 ELSE output
  /\ UNCHANGED <<phase, tickStep, now, cancel, capacity, orderDelay, exists, log,
                 cursor, scanned, newest, fresh, evicted, read, dropped, hwm,
                 peak, atDrain>>
  /\ UNCHANGED NotLive

\* Draining: flush the pending events in order, regardless of the delay window
DrainStep ==
  /\ phase = "Draining" /\ pending # {}
  /\ LET m == MinEvent(pending)
     IN /\ pending' = pending \ {m}
        /\ out' = Append(out, Emitted(m, read))
        /\ output' = output + 1
  /\ UNCHANGED <<phase, tickStep, now, cancel, capacity, orderDelay, exists, log,
                 cursor, scanned, newest, fresh, evicted, read, dropped, hwm,
                 peak, atDrain>>
  /\ UNCHANGED NotLive

\* a stop that does not wait for the flush
StopEarly ==
  /\ phase = "Draining"
  /\ phase' = "Stopped"
  /\ UNCHANGED <<tickStep, now, cancel, capacity, orderDelay, exists, log,
                 cursor, scanned, newest, fresh, pending, out, evicted,
                 read, output, dropped, hwm, peak, atDrain>>
  /\ UNCHANGED NotLive

Stop ==
  /\ phase = "Draining" /\ pending = {}
  /\ phase' = "Stopped"
  /\ UNCHANGED <<tickStep, now, cancel, capacity, orderDelay, exists, log,
                 cursor, scanned, newest, fresh, pending, out, evicted,
                 read, output, dropped, hwm, peak, atDrain>>
  /\ UNCHANGED NotLive

\* a producer appends an entry to the file of source s after the engine stopped
WriteAfterStop(s, ts) ==
  /\ phase = "Stopped" /\ exists[s] /\ Written < MaxEvents /\ ts <= now
  /\ log' = [log EXCEPT ![s] = Append(@, ts)]
  /\ UNCHANGED <<phase, tickStep, now, cancel, capacity, orderDelay, exists,
                 cursor, scanned, newest, fresh, pending, out, evicted,
                 read, output, dropped, hwm, peak, atDrain>>
  /\ UNCHANGED NotLive

NextLive ==
  \/ \E s \in Sources, ts \in 0..MaxTime : Write(s, ts)
  \/ \E s \in Sources : Create(s)
  \/ Start
  \/ BeginTick
  \/ \E s \in Sources : Scan(s)
  \/ Merge
  \/ Cancel
  \/ BeginDrain
  \/ DrainStep
  \/ Stop


(***************************************************************************)
(* Bytes, CRC8                                                             *)
(***************************************************************************)
Crc8Table ==
  <<
      0,   7,  14,   9,  28,  27,  18,  21,  56,  63,  54,  49,  36,  35,  42,  45,
    112, 119, 126, 121, 108, 107,  98, 101,  72,  79,  70,  65,  84,  83,  90,  93,
    224, 231, 238, 233, 252, 251, 242, 245, 216, 223, 214, 209, 196, 195, 202, 205,
    144, 151, 158, 153, 140, 139, 130, 133, 168, 175, 166, 161, 180, 179, 186, 189,
    199, 192, 201, 206, 219, 220, 213, 210, 255, 248, 241, 246, 227, 228, 237, 234,
    183, 176, 185, 190, 171, 172, 165, 162, 143, 136, 129, 134, 147, 148, 157, 154,
     39,  32,  41,  46,  59,  60,  53,  50,  31,  24,  17,  22,   3,   4,  13,  10,
     87,  80,  89,  94,  75,  76,  69,  66, 111, 104,  97, 102, 115, 116, 125, 122,
    137, 142, 135, 128, 149, 146, 155, 156, 177, 182, 191, 184, 173, 170, 163, 164,
    249, 254, 247, 240, 229, 226, 235, 236, 193, 198, 207, 200, 221, 218, 211, 212,
    105, 110, 103,  96, 117, 114, 123, 124,  81,  86,  95,  88,  77,  74,  67,  68,
     25,  30,  23,  16,   5,   2,  11,  12,  33,  38,  47,  40,  61,  58,  51,  52,
     78,  73,  64,  71,  82,  85,  92,  91, 118, 113, 120, 127, 106, 109, 100,  99,
     62,  57,  48,  55,  34,  37,  44,  43,   6,   1,   8,  15,  26,  29,  20,  19,
    174, 169, 160, 167, 178, 181, 188, 187, 150, 145, 152, 159, 138, 141, 132, 131,
    222, 217, 208, 215, 194, 197, 204, 203, 230, 225, 232, 239, 250, 253, 244, 243
  >>

RECURSIVE XorBits(_, _, _)
XorBits(a, b, n) ==
  IF n = 0 THEN 0
  ELSE (((a % 2) + (b % 2)) % 2) + 2 * XorBits(a \div 2, b \div 2, n - 1)

\* bitwise and, in the place of the exclusive or
RECURSIVE AndBits(_, _, _)
AndBits(a, b, n) ==
  IF n = 0 THEN 0
  ELSE ((a % 2) * (b % 2)) + 2 * AndBits(a \div 2, b \div 2, n - 1)

And8(a, b) == AndBits(a, b, 8)

Xor8(a, b) == XorBits(a, b, 8)

\* the loop of crc8 over data[lo..hi], started with init; the span is halved
\* to keep the evaluation shallow, the bytes are still taken in order
RECURSIVE Crc8From(_, _, _, _)
Crc8From(data, lo, hi, init) ==
  IF lo > hi THEN init
  ELSE IF lo = hi THEN Crc8Table[Xor8(init, data[lo]) + 1]
  ELSE LET mid  == (lo + hi) \div 2
           left == Crc8From(data, lo, mid, init)
       IN IF left < 0 THEN left ELSE Crc8From(data, mid + 1, hi, left)

crc8(data) == Crc8From(data, 1, Len(data), 0)

RECURSIVE Reverse(_)
Reverse(q) == IF q = <<>> THEN <<>> ELSE Reverse(Tail(q)) \o <<Head(q)>>

RECURSIVE Horner(_, _)
Horner(q, acc) == IF q = <<>> THEN acc ELSE Horner(Tail(q), acc * 256 + Head(q))

\* int.from_bytes(bytes, endian), unsigned
BytesToInt(bytes, endian) ==
  IF endian = "big" THEN Horner(bytes, 0) ELSE Horner(Reverse(bytes), 0)

RECURSIVE IntBytesLE(_, _)
IntBytesLE(v, n) ==
  IF n = 0 THEN <<>> ELSE <<v % 256>> \o IntBytesLE(v \div 256, n - 1)

\* v.to_bytes(n, endian): what the producer stores
IntBytes(v, n, endian) ==
  IF endian = "big" THEN Reverse(IntBytesLE(v, n)) ELSE IntBytesLE(v, n)

Zeros(n) == [i \in 1..n |-> 0]

\* Python slices of a sequence q (0-based, negative indices count from the end)
PyNorm(q, x) == IF x < 0 THEN Max(Len(q) + x, 0) ELSE Min(x, Len(q))
PySlice(q, a, b) == SubSeq(q, PyNorm(q, a) + 1, PyNorm(q, b))
PyFrom(q, a) == SubSeq(q, PyNorm(q, a) + 1, Len(q))
PyTo(q, b) == SubSeq(q, 1, PyNorm(q, b))

\* get(raw, offset, size): the assertion and the slice
get(raw, offset, size) ==
  [ok |-> Len(raw) >= offset + size, val |-> PySlice(raw, offset, offset + size)]

\* get_int(raw, offset, size)
get_int(raw, offset, size, endian) ==
  LET g == get(raw, offset, size)
  IN [ok |-> g.ok, val |-> IF g.ok THEN BytesToInt(g.val, endian) ELSE 0]

(***************************************************************************)
(* Ring Buffer Reader                                                      *)
(***************************************************************************)
Tilde == 126

\* the body of a ring entry as the producer lays it out
EntryBody(tag, pid, tid, ts, args, endian) ==
  IntBytes(tag, 6, endian) \o IntBytes(pid, 4, endian) \o IntBytes(tid, 4, endian)
    \o IntBytes(ts, 8, endian) \o args

\* a CRC-valid frame head declaring the size field sz
HeadBytes(sz, endian) ==
  LET h == <<Tilde>> \o IntBytes(sz, 2, endian) IN h \o <<crc8(h)>>

\* a complete frame around an entry body
FrameBytes(body, endian) == HeadBytes(Len(body), endian) \o body \o <<crc8(body)>>

\* an offset that does not wrap at the end of the ring
offsetNoWrap(base, value, max) == base + value

\* offset(base, value, max) of Ringbuffer.__init__
offset(base, value, max) ==
  LET b == base + value IN IF b >= max THEN b - max ELSE b

\* Ringbuffer_Entry.__init__: the four get_int calls and the size assertion
Ringbuffer_Entry(entry_body_size, body, location, endian) ==
  LET o == get_int(body, 0, 6, endian)
      p == get_int(body, 6, 4, endian)
      t == get_int(body, 10, 4, endian)
      n == get_int(body, 14, 8, endian)
  IN [ok |-> o.ok /\ p.ok /\ t.ok /\ n.ok /\ entry_body_size = Len(body),
      location_in_file |-> location, body_size |-> entry_body_size, body |-> body,
      offset |-> o.val, pid |-> p.val, tid |-> t.val, timestamp_ns |-> n.val,
      args_raw |-> PyFrom(body, 22)]

\* a mutex width that does not depend on the version
get_const_mutex_len_64(cv) == 64

\* get_const('mutex_len') for current_version = cv; 0 stands for the RuntimeError
get_const_mutex_len(cv) ==
  IF cv[1] = 1 /\ cv[2] <= 1 THEN 32
  ELSE IF cv[1] = 1 /\ cv[2] >= 2 THEN 64
  ELSE 0

\* ringbody_fileoff: where the ring body begins in the file
RingBodyFileOff(r) == r.file_offset + get_const_mutex_len(r.version) + 56 + 40

ringbody_fileoff == RingBodyFileOff(rb)

Raise(why) == [kind |-> "raise", why |-> why]
Miss == [kind |-> "miss"]

\* one iteration of the walk of ring r at cursor lv, after the start_positions test:
\* a framing miss, a frame, or an exception
WalkAtIn(r, lv) ==
  LET bs   == r.body_size
      body == r.body
      en   == r.endian
      i0   == offset(lv, 0, bs)
      i1   == offset(lv, 1, bs)
      i2   == offset(lv, 2, bs)
      i3   == offset(lv, 3, bs)
  IN
  IF i0 >= bs THEN Raise("IndexError")
  ELSE IF body[i0 + 1] # Tilde THEN Miss
  ELSE IF i1 >= bs \/ i2 >= bs \/ i3 >= bs THEN Raise("IndexError")
  ELSE
  LET entry_head == <<body[i0 + 1], body[i1 + 1], body[i2 + 1], body[i3 + 1]>>
  IN
  IF crc8(entry_head) # 0 THEN Miss
  ELSE
  LET tmp_last_valid   == offset(lv, 4, bs)
      entry_body_size  == BytesToInt(SubSeq(entry_head, 2, 3), en) + 1
      till_wrapped     == bs - tmp_last_valid
      first_part_size  == Min(entry_body_size, till_wrapped)
      part1            == get(body, tmp_last_valid, first_part_size)
      second_part_size == Max(entry_body_size - first_part_size, 0)
      part2            == get(body, 0, second_part_size)
  IN
  IF ~part1.ok \/ ~part2.ok THEN Raise("AssertionError")
  ELSE
  LET eb1 == part1.val \o PyFrom(Zeros(entry_body_size), first_part_size)
      entry_body == PyTo(eb1, first_part_size) \o part2.val
  IN
  IF crc8(entry_body) # 0 THEN Miss
  ELSE
  LET e == Ringbuffer_Entry(entry_body_size - 1, PyTo(entry_body, -1),
                            RingBodyFileOff(r) + lv, en)
  IN IF ~e.ok THEN Raise("AssertionError")
     ELSE [kind |-> "frame", entry |-> e,
           next |-> offset(lv, 4 + entry_body_size, bs)]

\* the iteration of the reader's own ring
WalkAt(lv) == WalkAtIn(rb, lv)

\* missing_tracepoint_cound, computed after the walk
MissingCount(found) ==
  Max(0, rb.entries_count - (Len(found) + rb.dropped + (IF rb.mutex_locked THEN 1 ELSE 0)))

\* used, computed from the header
UsedOf(r) ==
  IF r.last_valid <= r.next_free THEN r.next_free - r.last_valid
  ELSE (r.next_free + r.body_size) - r.last_valid

Used == UsedOf(rb)

\* the loop of Ringbuffer.__init__ run to its end: the entries, or an exception
RECURSIVE RingWalk(_, _, _, _)
RingWalk(r, lv, seen, found) ==
  IF ~(lv # r.next_free \/ r.recover_all) \/ lv \in seen
  THEN [ok |-> TRUE, entries |-> found]
  ELSE LET w == WalkAtIn(r, lv)
       IN IF w.kind = "raise" THEN [ok |-> FALSE, entries |-> <<>>]
          ELSE IF w.kind = "miss"
          THEN RingWalk(r, offset(lv, 1, r.body_size), seen \cup {lv}, found)
          ELSE RingWalk(r, w.next, seen \cup {lv}, Append(found, w.entry))

\* Ringbuffer.__init__ on a parsed header: the entries of the ring
RingEntries(r) ==
  IF UsedOf(r) < 0 THEN [ok |-> FALSE, entries |-> <<>>]
  ELSE IF r.entries_count = 0 THEN [ok |-> TRUE, entries |-> <<>>]
  ELSE RingWalk(r, r.last_valid, {}, <<>>)

\* ---- the ring buffers handed to the reader -------------------------------
RingSize == 60     \* body_size of the modelled ring
MaxItems == 2      \* items laid out in the ring

ProperBodies(endian) ==
  { EntryBody(2, 1, 1, 1, <<>>, endian), EntryBody(2, 1, 2, 2, <<7>>, endian) }

\* what may lie in the ring: proper frames, a CRC-valid frame too short to be an
\* entry, a CRC-valid head declaring more than the ring holds, junk bytes
Items(endian) ==
  { [proper |-> TRUE, bytes |-> FrameBytes(b, endian)] : b \in ProperBodies(endian) }
  \cup { [proper |-> FALSE, bytes |-> FrameBytes(<<>>, endian)],
         [proper |-> FALSE, bytes |-> HeadBytes(255, endian)],
         [proper |-> FALSE, bytes |-> <<1>>],
         [proper |-> FALSE, bytes |-> <<Tilde>>] }

Layouts(endian) ==
  UNION { [1..n -> Items(endian)] : n \in 0..MaxItems }

RECURSIVE Concat(_)
Concat(items) ==
  IF items = <<>> THEN <<>> ELSE Head(items).bytes \o Concat(Tail(items))

\* the ring body holding bytes from position start on, zero elsewhere
BodyOf(bytes, start, bs) ==
  [i \in 1..bs |->
     LET k == ((i - 1) + bs - (start % bs)) % bs
     IN IF k < Len(bytes) THEN bytes[k + 1] ELSE 0]

RingOf(endian, layout, start, slack, count, locked, recover) ==
  LET bytes == Concat(layout)
      end   == (start + Len(bytes)) % RingSize
  IN [ file_offset  |-> 0,
       version      |-> <<1, 2>>,
       body         |-> BodyOf(bytes, start, RingSize),
       body_size    |-> RingSize,
       endian       |-> endian,
       last_valid   |-> start,
       next_free    |-> (end + slack) % RingSize,
       entries_count|-> count,
       dropped      |-> 0,
       mutex_locked |-> locked,
       recover_all  |-> recover,
       \* what the producer wrote, for the statement of the properties
       frames       |-> layout,
       well_formed  |-> /\ \A i \in 1..Len(layout) : layout[i].proper
                        /\ Len(bytes) < RingSize /\ start < RingSize
                        /\ slack = 0 /\ count # 0 ]

Starts == {0, RingSize - 22, RingSize - 2, RingSize, RingSize + 20}

NoRing == [body |-> <<>>]

InitRing ==
  /\ \E endian \in {"little", "big"}, start \in Starts, slack \in {0, 1},
        locked \in BOOLEAN, recover \in BOOLEAN, zero \in BOOLEAN :
       \E layout \in Layouts(endian) :
          rb = RingOf(endian, layout, start, slack,
                      IF zero THEN 0 ELSE Len(layout) + 1, locked, recover)
  /\ rpc = "load" /\ last_valid = 0 /\ start_positions = {} /\ entries = <<>>
  /\ ringbuffer_valid = TRUE /\ warnings = 0 /\ missing = -1

\* a ring whose next_free lies behind its first item, the items after it being
\* stale bytes in the free part of the ring, or a ring whose next_free equals
\* its last_valid although items lie in its body
InitStale ==
  /\ \E endian \in {"little", "big"}, start \in {0, RingSize - 22},
        locked \in BOOLEAN, recover \in BOOLEAN, full \in BOOLEAN :
       \E layout \in Layouts(endian) :
          /\ Len(layout) >= 1
          /\ rb = [RingOf(endian, layout, start, 0, Len(layout) + 1, locked, recover)
                     EXCEPT !.next_free = IF full THEN start
                                          ELSE (start + Len(layout[1].bytes)) % RingSize,
                            !.well_formed = FALSE]
  /\ rpc = "load" /\ last_valid = 0 /\ start_positions = {} /\ entries = <<>>
  /\ ringbuffer_valid = TRUE /\ warnings = 0 /\ missing = -1

\* the end of Ringbuffer.__init__, after the walk
Finish ==
  /\ rpc' = "done"
  /\ missing' = MissingCount(entries)

\* a reader that leaves the body of a ring with a held mutex alone
LoadSkipLocked ==
  /\ rpc = "load"
  /\ IF Used < 0
       THEN rpc' = "raised" /\ UNCHANGED <<last_valid, ringbuffer_valid, missing>>
     ELSE IF rb.entries_count # 0 /\ ~rb.mutex_locked
       THEN /\ rpc' = "walk"
            /\ last_valid' = rb.last_valid
            /\ ringbuffer_valid' = ~rb.mutex_locked
            /\ UNCHANGED missing
     ELSE Finish /\ UNCHANGED <<last_valid, ringbuffer_valid>>
  /\ UNCHANGED <<rb, start_positions, entries, warnings>>
  /\ UNCHANGED NotRing

\* a reader that walks the body whatever the entry count of the header
LoadAlwaysWalk ==
  /\ rpc = "load"
  /\ IF Used < 0
       THEN rpc' = "raised" /\ UNCHANGED <<last_valid, ringbuffer_valid, missing>>
     ELSE /\ rpc' = "walk"
          /\ last_valid' = rb.last_valid
          /\ ringbuffer_valid' = ~rb.mutex_locked
          /\ UNCHANGED missing
  /\ UNCHANGED <<rb, start_positions, entries, warnings>>
  /\ UNCHANGED NotRing

\* the header is parsed; the body is walked only if the entry count is not 0
Load ==
  /\ rpc = "load"
  /\ IF Used < 0
       THEN rpc' = "raised" /\ UNCHANGED <<last_valid, ringbuffer_valid, missing>>
     ELSE IF rb.entries_count # 0
       THEN /\ rpc' = "walk"
            /\ last_valid' = rb.last_valid
            /\ ringbuffer_valid' = ~rb.mutex_locked
            /\ UNCHANGED missing
     ELSE Finish /\ UNCHANGED <<last_valid, ringbuffer_valid>>
  /\ UNCHANGED <<rb, start_positions, entries, warnings>>
  /\ UNCHANGED NotRing

\* a loop condition that does not look at next_free
LoopingWhatever == rpc = "walk"

Looping == rpc = "walk" /\ (last_valid # rb.next_free \/ rb.recover_all)

\* the while condition fails: the cursor reached next_free
WalkExit ==
  /\ rpc = "walk" /\ ~Looping
  /\ Finish
  /\ UNCHANGED <<rb, last_valid, start_positions, entries, ringbuffer_valid, warnings>>
  /\ UNCHANGED NotRing

\* the cursor value was processed before: break
WalkRevisit ==
  /\ Looping /\ last_valid \in start_positions
  /\ Finish
  /\ UNCHANGED <<rb, last_valid, start_positions, entries, ringbuffer_valid, warnings>>
  /\ UNCHANGED NotRing

\* a reader that warns at every position without a valid frame
WalkMissWarnAlways ==
  /\ Looping /\ last_valid \notin start_positions
  /\ WalkAt(last_valid).kind = "miss"
  /\ start_positions' = start_positions \cup {last_valid}
  /\ warnings' = warnings + 1
  /\ ringbuffer_valid' = FALSE
  /\ last_valid' = offset(last_valid, 1, rb.body_size)
  /\ UNCHANGED <<rb, rpc, entries, missing>>
  /\ UNCHANGED NotRing

\* no valid frame here: warn once per run, advance by one byte
WalkMiss ==
  /\ Looping /\ last_valid \notin start_positions
  /\ WalkAt(last_valid).kind = "miss"
  /\ start_positions' = start_positions \cup {last_valid}
  /\ warnings' = IF ringbuffer_valid THEN warnings + 1 ELSE warnings
  /\ ringbuffer_valid' = FALSE
  /\ last_valid' = offset(last_valid, 1, rb.body_size)
  /\ UNCHANGED <<rb, rpc, entries, missing>>
  /\ UNCHANGED NotRing

\* a valid frame: append the entry, advance past it
WalkFrame ==
  /\ Looping /\ last_valid \notin start_positions
  /\ LET w == WalkAt(last_valid)
     IN /\ w.kind = "frame"
        /\ entries' = Append(entries, w.entry)
        /\ last_valid' = w.next
  /\ start_positions' = start_positions \cup {last_valid}
  /\ ringbuffer_valid' = TRUE
  /\ UNCHANGED <<rb, rpc, warnings, missing>>
  /\ UNCHANGED NotRing

\* an exception leaves Ringbuffer.__init__: the file's decode fails
WalkRaise ==
  /\ Looping /\ last_valid \notin start_positions
  /\ WalkAt(last_valid).kind = "raise"
  /\ start_positions' = start_positions \cup {last_valid}
  /\ rpc' = "raised"
  /\ UNCHANGED <<rb, last_valid, entries, ringbuffer_valid, warnings, missing>>
  /\ UNCHANGED NotRing

RingOff ==
  /\ rb = NoRing /\ rpc = "off" /\ last_valid = 0 /\ start_positions = {}
  /\ entries = <<>> /\ ringbuffer_valid = TRUE /\ warnings = 0 /\ missing = -1

NextRing ==
  \/ Load
  \/ WalkExit
  \/ WalkRevisit
  \/ WalkMiss
  \/ WalkFrame
  \/ WalkRaise

(***************************************************************************)
(* Entry Resolver                                                          *)
(* Text is a sequence of character codes; the files of the model hold      *)
(* ASCII bytes only.                                                       *)
(***************************************************************************)
HexDigit(n) == IF n < 10 THEN 48 + n ELSE 87 + n

\* the bytes from position i on that bytes.decode("utf8", errors="ignore")
\* takes as one step: k continuation bytes follow the lead byte b[i], the first
\* of them inside lo..hi
Continued(b, i, k, lo, hi) ==
  /\ i + k <= Len(b)
  /\ b[i + 1] >= lo /\ b[i + 1] <= hi
  /\ \A j \in 2..k : b[i + j] >= 128 /\ b[i + j] <= 191

\* b.decode(encoding="utf8", errors="ignore") from position i on: the code
\* points of the well-formed sequences; the bytes of an ill-formed or truncated
\* sequence are left out up to the first byte that does not continue it
RECURSIVE utf8_ignore(_, _)
utf8_ignore(b, i) ==
  IF i > Len(b) THEN <<>>
  ELSE IF b[i] < 128 THEN <<b[i]>> \o utf8_ignore(b, i + 1)
  ELSE IF b[i] < 194 \/ b[i] > 244 THEN utf8_ignore(b, i + 1)
  ELSE IF b[i] < 224
    THEN IF Continued(b, i, 1, 128, 191)
         THEN <<(b[i] - 192) * 64 + (b[i + 1] - 128)>> \o utf8_ignore(b, i + 2)
         ELSE utf8_ignore(b, i + 1)
  ELSE IF b[i] < 240
    THEN IF Continued(b, i, 2, IF b[i] = 224 THEN 160 ELSE 128,
                               IF b[i] = 237 THEN 159 ELSE 191)
         THEN <<(b[i] - 224) * 4096 + (b[i + 1] - 128) * 64 + (b[i + 2] - 128)>>
                \o utf8_ignore(b, i + 3)
         ELSE IF Continued(b, i, 1, IF b[i] = 224 THEN 160 ELSE 128,
                                    IF b[i] = 237 THEN 159 ELSE 191)
         THEN utf8_ignore(b, i + 2)
         ELSE utf8_ignore(b, i + 1)
  ELSE IF Continued(b, i, 3, IF b[i] = 240 THEN 144 ELSE 128,
                             IF b[i] = 244 THEN 143 ELSE 191)
    THEN <<(b[i] - 240) * 262144 + (b[i + 1] - 128) * 4096
             + (b[i + 2] - 128) * 64 + (b[i + 3] - 128)>> \o utf8_ignore(b, i + 4)
    ELSE IF Continued(b, i, 2, IF b[i] = 240 THEN 144 ELSE 128,
                               IF b[i] = 244 THEN 143 ELSE 191)
    THEN utf8_ignore(b, i + 3)
    ELSE IF Continued(b, i, 1, IF b[i] = 240 THEN 144 ELSE 128,
                               IF b[i] = 244 THEN 143 ELSE 191)
    THEN utf8_ignore(b, i + 2)
    ELSE utf8_ignore(b, i + 1)

\* unicodedata.category(ch)[0] == "C" (Unicode 14) for the code points up to
\* U+00FF and those of the blocks U+2000..U+20FF and U+2200..U+2AFF
CategoryC(ch) ==
  \/ ch <= 31 \/ (ch >= 127 /\ ch <= 159) \/ ch = 173
  \/ (ch >= 8203 /\ ch <= 8207) \/ (ch >= 8234 /\ ch <= 8238)
  \/ (ch >= 8288 /\ ch <= 8303) \/ ch \in {8306, 8307, 8335}
  \/ (ch >= 8349 /\ ch <= 8351) \/ (ch >= 8385 /\ ch <= 8399)
  \/ (ch >= 8433 /\ ch <= 8447)
  \/ (ch >= 9255 /\ ch <= 9279) \/ (ch >= 9291 /\ ch <= 9311)

\* f'{n:x}'
RECURSIVE LowerHex(_)
LowerHex(n) ==
  IF n < 16 THEN <<HexDigit(n)>> ELSE LowerHex(n \div 16) \o <<HexDigit(n % 16)>>

\* an escape cut to two hex digits
validate_two_digits(ch) ==
  IF CategoryC(ch) /\ ch # 0
  THEN IF ch = 10 THEN <<92, 110>>
       ELSE IF ch = 9 THEN <<92, 116>>
       ELSE IF ch = 13 THEN <<92, 114>>
       ELSE <<92, 120, HexDigit((ch \div 16) % 16), HexDigit(ch % 16)>>
  ELSE <<ch>>

\* validate_charsinformat: the characters of category C other than NUL become
\* escapes; f'\\x{ord(ch):02x}' pads to two hex digits and cuts nothing
validate_charsinformat(ch) ==
  IF CategoryC(ch) /\ ch # 0
  THEN IF ch = 10 THEN <<92, 110>>
       ELSE IF ch = 9 THEN <<92, 116>>
       ELSE IF ch = 13 THEN <<92, 114>>
       ELSE IF ch < 16 THEN <<92, 120, 48, HexDigit(ch)>>
       ELSE <<92, 120>> \o LowerHex(ch)
  ELSE <<ch>>

\* ''.join(validate_charsinformat(ch) for ch in data)
RECURSIVE JoinValidated(_)
JoinValidated(data) ==
  IF data = <<>> THEN <<>>
  ELSE validate_charsinformat(Head(data)) \o JoinValidated(Tail(data))

\* decode(b) on bytes: text as a sequence of code points
decode(b) == JoinValidated(utf8_ignore(b, 1))

\* bytes.find(0): index of the first NUL, -1 if there is none
RECURSIVE FindFrom(_, _, _)
FindFrom(b, x, i) ==
  IF i > Len(b) THEN -1 ELSE IF b[i] = x THEN i - 1 ELSE FindFrom(b, x, i + 1)

\* str.split('\x00')
RECURSIVE SplitNul(_)
SplitNul(t) ==
  LET k == FindFrom(t, 0, 1)
  IN IF k = -1 THEN <<t>> ELSE <<SubSeq(t, 1, k)>> \o SplitNul(SubSeq(t, k + 2, Len(t)))

Percent == 37
OpenBrace == 123

\* Python's None
None == [none |-> TRUE]

\* Stack.get_blob(offset): the record whose [begin, end) holds offset, or None
RECURSIVE get_blob_from(_, _, _)
get_blob_from(stack, off, i) ==
  IF i > Len(stack) THEN None
  ELSE IF stack[i].file_offset <= off /\ off < stack[i].file_offset + Len(stack[i].body)
       THEN stack[i]
       ELSE get_blob_from(stack, off, i + 1)

get_blob(stack, off) == get_blob_from(stack, off, 1)

\* DynamicTraceentry.__init__
DynamicTraceentry(entry, endian) ==
  LET body        == PyFrom(entry.body, 22)
      file_length == FindFrom(body, 0, 1)
      f           == get(body, 0, file_length)
      line        == get_int(body, file_length + 1, 8, endian)
  IN IF ~f.ok \/ ~line.ok THEN Raise("AssertionError")
     ELSE [kind |-> "event", type |-> "dynamic", file |-> decode(f.val),
           line |-> line.val,
           formatted |-> decode(PyTo(PyFrom(body, file_length + 8 + 1), -1))]

\* StaticTraceentry.__init__ up to the format string: the descriptor parse.
\* Every failed assertion or get leaves the constructor as an exception.
StaticDescriptor(entry, meta, endian) ==
  IF meta = None THEN Raise("AttributeError")
  ELSE
  LET mb  == meta.body
      m   == get_int(entry.body, 0, 6, endian).val - meta.file_offset
      magic == get(mb, m, 1)
      type  == get_int(mb, m + 5, 1, endian)
      meta_size == get_int(mb, m + 1, 4, endian)
      raw_meta  == get(mb, m, meta_size.val)
      line  == get_int(mb, m + 6, 4, endian)
      argument_count == get_int(mb, m + 10, 1, endian)
      argument_type_array == get(mb, m + 11, argument_count.val + 1)
      string == get(mb, m + 12 + argument_count.val,
                    meta_size.val - 12 - argument_count.val)
      parts  == SplitNul(decode(string.val))
  IN
  IF ~(0 <= m /\ m <= Len(mb)) THEN Raise("AssertionError")
  ELSE IF ~magic.ok \/ magic.val # <<OpenBrace>> THEN Raise("AssertionError")
  ELSE IF ~type.ok THEN Raise("AssertionError")
  ELSE IF type.val \notin {1, 2} THEN Raise("AttributeError")
  ELSE IF ~meta_size.ok \/ ~raw_meta.ok \/ ~line.ok THEN Raise("AssertionError")
  ELSE IF ~argument_count.ok \/ ~argument_type_array.ok THEN Raise("AssertionError")
  ELSE IF argument_type_array.val = <<>> THEN Raise("IndexError")
  ELSE IF argument_type_array.val[Len(argument_type_array.val)] # 0
       THEN Raise("AssertionError")
  ELSE IF ~string.ok THEN Raise("AssertionError")
  ELSE IF Len(parts) # 3 THEN Raise("ValueError")
  ELSE IF parts[3] # <<>> THEN Raise("AssertionError")
  ELSE [kind |-> "descriptor", type |-> type.val, line |-> line.val,
        argument_count |-> argument_count.val,
        argument_type_array |-> PyTo(argument_type_array.val, argument_count.val),
        file |-> parts[1], format |-> parts[2]]

\* ---- argument values ------------------------------------------------------
\* A decoded argument is a Python int or str. An integer argument has up to
\* 128 bits: it is held as its sign and the base-256 digits of its magnitude,
\* least significant first and without a leading zero digit. A float is held
\* as the bytes struct.unpack reads; its IEEE value is not computed.
IntValue(neg, mag) == [t |-> "int", neg |-> neg, mag |-> mag, s |-> <<>>]
StrValue(s) == [t |-> "str", neg |-> FALSE, mag |-> <<>>, s |-> s]
FloatValue(b) == [t |-> "float", neg |-> FALSE, mag |-> <<>>, s |-> b]

\* the digits of a magnitude without its leading zero digits
RECURSIVE Strip(_)
Strip(q) ==
  IF q = <<>> THEN q
  ELSE IF q[Len(q)] = 0 THEN Strip(SubSeq(q, 1, Len(q) - 1)) ELSE q

\* 2^(8n) - q on n little-endian digits: the two's complement
RECURSIVE NegateLE(_, _)
NegateLE(q, carry) ==
  IF q = <<>> THEN <<>>
  ELSE LET s == (255 - Head(q)) + carry
       IN <<s % 256>> \o NegateLE(Tail(q), s \div 256)

\* int.from_bytes that reads every width as unsigned
int_from_bytes_unsigned(bytes, endian, signed) ==
  IntValue(FALSE, Strip(IF endian = "big" THEN Reverse(bytes) ELSE bytes))

\* int.from_bytes(bytes, endian, signed=signed)
int_from_bytes(bytes, endian, signed) ==
  LET le == IF endian = "big" THEN Reverse(bytes) ELSE bytes
  IN IF signed /\ le # <<>> /\ le[Len(le)] >= 128
     THEN IntValue(TRUE, Strip(NegateLE(le, 1)))
     ELSE IntValue(FALSE, Strip(le))

\* get_int(raw, offset, size, signed) for an argument
get_int_arg(raw, off, size, signed, endian) ==
  Only({ [ok |-> g.ok,
          val |-> IF g.ok THEN int_from_bytes(g.val, endian, signed)
                  ELSE IntValue(FALSE, <<>>)] :
         g \in { get(raw, off, size) } })

\* type_mapping and arg_type_to_string: the type name of a tag character
arg_type_to_string(c) ==
  CASE c = 99 -> "uint8"
    [] c = 67 -> "int8"
    [] c = 119 -> "uint16"
    [] c = 87 -> "int16"
    [] c = 105 -> "uint32"
    [] c = 73 -> "int32"
    [] c = 108 -> "uint64"
    [] c = 76 -> "int64"
    [] c = 113 -> "uint128"
    [] c = 81 -> "int128"
    [] c = 102 -> "float"
    [] c = 100 -> "double"
    [] c = 115 -> "char*"
    [] c = 120 -> "<dump>"
    [] c = 112 -> "pointer"
    [] OTHER -> "unknown type"

\* the width and the signedness get_arg reads a type with
SizeOf(t) ==
  CASE t \in {"uint8", "int8"} -> 1
    [] t \in {"uint16", "int16"} -> 2
    [] t \in {"uint32", "int32", "float"} -> 4
    [] t \in {"uint64", "int64", "pointer", "double"} -> 8
    [] t \in {"uint128", "int128"} -> 16

IsSigned(t) == t \in {"int8", "int16", "int32", "int64", "int128"}

\* " ".join(f"{x:02X}" for x in value)
UpperHexDigit(n) == IF n < 10 THEN 48 + n ELSE 55 + n

RECURSIVE HexJoin(_)
HexJoin(b) ==
  IF b = <<>> THEN <<>>
  ELSE <<UpperHexDigit(Head(b) \div 16), UpperHexDigit(Head(b) % 16)>>
         \o (IF Len(b) > 1 THEN <<32>> ELSE <<>>) \o HexJoin(Tail(b))

\* get_arg(raw, off, t, format): the value and the off behind it, or
\* ok = FALSE for the exception of a failed get or an unusable type
get_arg(raw, off, t, format, endian) ==
  LET IntTypes ==
        {"uint8", "int8", "uint16", "int16", "uint32", "int32", "uint64", "int64",
         "uint128", "int128", "pointer"}
      Fail == [ok |-> FALSE, offset |-> off, value |-> StrValue(<<>>)]
      BytesArg(size) ==
        Only({ IF g.ok THEN [ok |-> TRUE, offset |-> off + size, value |-> g.val]
               ELSE Fail : g \in { get(raw, off, size) } })
      IntArg(size, signed) ==
        Only({ IF v.ok THEN [ok |-> TRUE, offset |-> off + size, value |-> v.val]
               ELSE Fail : v \in { get_int_arg(raw, off, size, signed, endian) } })
      Prefixed ==
        Only({ Only({ IF ~string_length.ok \/ ~g.ok THEN Fail
                      ELSE [ok |-> TRUE, offset |-> off + 4 + string_length.val,
                            value |-> g.val] :
                      g \in { get(raw, off + 4, string_length.val) } }) :
               string_length \in { get_int(raw, off, 4, endian) } })
  IN
  IF t \in IntTypes THEN IntArg(SizeOf(t), IsSigned(t))
  ELSE IF t \in {"float", "double"}
  THEN Only({ IF b.ok THEN [b EXCEPT !.value = FloatValue(b.value)] ELSE b :
              b \in { BytesArg(SizeOf(t)) } })
  ELSE IF t = "char*" /\ format.conversion_specifier = 115
  THEN Only({ IF ~b.ok THEN b
              ELSE Only({ [b EXCEPT !.value =
                             StrValue(IF value # <<>> /\ value[Len(value)] = 0
                                      THEN PyTo(value, -1) ELSE value)] :
                          value \in { decode(b.value) } }) :
              b \in { Prefixed } })
  ELSE IF t = "char*" /\ format.conversion_specifier = 112
  THEN IntArg(8, FALSE)
  ELSE IF t = "<dump>"
  THEN Only({ IF b.ok THEN [b EXCEPT !.value = StrValue(HexJoin(b.value))] ELSE b :
              b \in { Prefixed } })
  ELSE Fail

\* ---- format directives ----------------------------------------------------
\* the first position from i on that holds no digit
RECURSIVE DigitsEnd(_, _)
DigitsEnd(f, i) ==
  IF i <= Len(f) /\ f[i] \in 48..57 THEN DigitsEnd(f, i + 1) ELSE i

\* the first position from i on that holds no '%'
RECURSIVE PercentEnd(_, _)
PercentEnd(f, i) ==
  IF i <= Len(f) /\ f[i] = Percent THEN PercentEnd(f, i + 1) ELSE i

\* format_regex behind the '%' of a directive: flags, min_field_width,
\* precision, length and conversion_specifier from position i on; a, b, c and
\* d are the positions behind the first four
DirectiveAt(f, start, i) ==
  LET n == Len(f)
      FlagChars == {35, 48, 45, 73, 39, 43}
      LengthChars == {104, 108, 106, 122, 76}
      ConversionChars ==
        {99, 100, 117, 120, 88, 101, 69, 102, 103, 71, 115, 112, 111, 105}
      FlagsEnd == IF i <= n /\ f[i] \in FlagChars THEN i + 1 ELSE i
      WidthEnd(a) ==
        IF a <= n /\ f[a] \in 48..57 THEN DigitsEnd(f, a)
        ELSE IF a <= n /\ f[a] = 42 THEN a + 1 ELSE a
      PrecisionEnd(b) ==
        IF b <= n /\ f[b] = 46
        THEN IF b + 1 <= n /\ f[b + 1] \in 48..57 THEN DigitsEnd(f, b + 1)
             ELSE IF b + 2 <= n /\ f[b + 1] = 42 /\ f[b + 2] = 110 THEN b + 3
             ELSE b + 1
        ELSE b
      LengthEnd(c) ==
        IF c + 1 <= n /\ f[c] = f[c + 1] /\ f[c] \in {104, 108} THEN c + 2
        ELSE IF c <= n /\ f[c] \in LengthChars THEN c + 1 ELSE c
      Groups(a, b, c, d) ==
        [match |-> d <= n /\ f[d] \in ConversionChars,
         start |-> start, end |-> d,
         flags |-> SubSeq(f, i, a - 1), min_field_width |-> SubSeq(f, a, b - 1),
         precision |-> SubSeq(f, b, c - 1), length |-> SubSeq(f, c, d - 1),
         conversion_specifier |-> IF d <= n THEN f[d] ELSE 0]
  IN Only({ Only({ Only({ Only({ Groups(a, b, c, d) :
                                 d \in { LengthEnd(c) } }) :
                          c \in { PrecisionEnd(b) } }) :
                   b \in { WidthEnd(a) } }) :
            a \in { FlagsEnd } })

\* format_regex.finditer(format) from position i on: a directive starts at a
\* run of '%' of odd length, the pairs before its last '%' belong to the match
RECURSIVE finditer_from(_, _)
finditer_from(f, i) ==
  IF i > Len(f) THEN <<>>
  ELSE IF f[i] # Percent THEN finditer_from(f, i + 1)
  ELSE Only({ Only({ IF (e - i) % 2 = 1 /\ m.match
                     THEN <<m>> \o finditer_from(f, m.end + 1)
                     ELSE finditer_from(f, e) :
                     m \in { DirectiveAt(f, i, e) } }) :
              e \in { PercentEnd(f, i) } })

finditer(f) == finditer_from(f, 1)

\* a translation that keeps the flag of a directive only for %p
build_new_format_no_flags(m) ==
  IF m.conversion_specifier = 112
  THEN <<48, 120, Percent>> \o (IF m.flags = <<>> THEN <<48>> ELSE m.flags)
         \o (IF m.min_field_width = <<>> THEN <<48>> ELSE m.min_field_width)
         \o (IF m.precision = <<>> THEN <<46, 48>> ELSE m.precision) \o <<120>>
  ELSE <<Percent>> \o m.min_field_width \o m.precision
         \o <<m.conversion_specifier>>

\* build_new_format(match)
build_new_format(m) ==
  IF m.conversion_specifier = 112
  THEN <<48, 120, Percent>> \o (IF m.flags = <<>> THEN <<48>> ELSE m.flags)
         \o (IF m.min_field_width = <<>> THEN <<48>> ELSE m.min_field_width)
         \o (IF m.precision = <<>> THEN <<46, 48>> ELSE m.precision) \o <<120>>
  ELSE <<Percent>> \o m.flags \o m.min_field_width \o m.precision
         \o <<m.conversion_specifier>>

\* format_regex.sub(build_new_format, format)
RECURSIVE SubDirectives(_, _, _)
SubDirectives(f, ms, i) ==
  IF ms = <<>> THEN SubSeq(f, i, Len(f))
  ELSE SubSeq(f, i, Head(ms).start - 1) \o build_new_format(Head(ms))
         \o SubDirectives(f, Tail(ms), Head(ms).end + 1)

\* re.sub(r'\\n', ' ', format): a backslash followed by n becomes a blank
RECURSIVE SubNewline(_)
SubNewline(f) ==
  IF f = <<>> THEN f
  ELSE IF Len(f) >= 2 /\ f[1] = 92 /\ f[2] = 110
       THEN <<32>> \o SubNewline(SubSeq(f, 3, Len(f)))
       ELSE <<Head(f)>> \o SubNewline(Tail(f))

clean_up_format(f) ==
  Only({ SubNewline(SubDirectives(f, ms, 1)) : ms \in {finditer(f)} })

\* ---- the % operator of Python ---------------------------------------------
\* str(n) of a natural number
RECURSIVE Decimal(_)
Decimal(n) == IF n < 10 THEN <<48 + n>> ELSE Decimal(n \div 10) \o <<48 + (n % 10)>>

\* the digits of a magnitude, most significant first, divided by k: the
\* remainder is carried from digit to digit
RECURSIVE DivFrom(_, _, _)
DivFrom(be, rem, k) ==
  IF be = <<>> THEN [q |-> <<>>, r |-> rem]
  ELSE Only({ [q |-> <<(rem * 256 + Head(be)) \div k>> \o rest.q, r |-> rest.r] :
              rest \in { DivFrom(Tail(be), (rem * 256 + Head(be)) % k, k) } })

\* str(n) of a magnitude, four decimal digits at a time
RECURSIVE DecimalOf(_)
DecimalOf(mag) ==
  LET Digits4(n) ==
        <<48 + (n \div 1000), 48 + ((n \div 100) % 10), 48 + ((n \div 10) % 10),
          48 + (n % 10)>>
  IN Only({ Only({ IF q = <<>> THEN Decimal(d.r) ELSE DecimalOf(q) \o Digits4(d.r) :
                   q \in { Strip(Reverse(d.q)) } }) :
            d \in { DivFrom(Reverse(mag), 0, 10000) } })

RECURSIVE HexOf(_, _)
HexOf(be, upper) ==
  IF be = <<>> THEN <<>>
  ELSE LET D(n) == IF upper THEN UpperHexDigit(n) ELSE HexDigit(n)
       IN <<D(Head(be) \div 16), D(Head(be) % 16)>> \o HexOf(Tail(be), upper)

\* '%d' % v
FormatDecimal(v) ==
  IF v.mag = <<>> THEN <<48>>
  ELSE (IF v.neg THEN <<45>> ELSE <<>>) \o DecimalOf(v.mag)

\* '%x' % v and '%X' % v
FormatHex(v, upper) ==
  IF v.mag = <<>> THEN <<48>>
  ELSE Only({ (IF v.neg THEN <<45>> ELSE <<>>) \o (IF Head(h) = 48 THEN Tail(h) ELSE h) :
              h \in { HexOf(Reverse(v.mag), upper) } })

\* str(v)
Str(v) == IF v.t = "int" THEN FormatDecimal(v) ELSE v.s

\* format % tuple(args) from position i of the format and argument k on:
\* kind "text", kind "raise" for the exception of the operator, or kind
\* "unmodelled" for a directive with a flag, a width, a precision or a
\* conversion this model does not render
RECURSIVE PercentFrom(_, _, _, _)
PercentFrom(f, args, i, k) ==
  LET n == Len(f)
      Next(text, j, kk) ==
        LET r == PercentFrom(f, args, j, kk)
        IN IF r.kind = "text" THEN [kind |-> "text", text |-> text \o r.text] ELSE r
      Raised == [kind |-> "raise", text |-> <<>>]
      Unmodelled == [kind |-> "unmodelled", text |-> <<>>]
  IN
  IF i > n THEN IF k > Len(args) THEN [kind |-> "text", text |-> <<>>] ELSE Raised
  ELSE IF f[i] # Percent THEN Next(<<f[i]>>, i + 1, k)
  ELSE IF i = n THEN Raised
  ELSE IF f[i + 1] = Percent THEN Next(<<Percent>>, i + 2, k)
  ELSE IF i + 5 <= n /\ SubSeq(f, i + 1, i + 5) = <<48, 48, 46, 48, 120>>
  THEN IF k > Len(args) THEN Raised
       ELSE IF args[k].t # "int" THEN IF args[k].t = "str" THEN Raised ELSE Unmodelled
       ELSE Next(FormatHex(args[k], FALSE), i + 6, k + 1)
  ELSE IF f[i + 1] \in {100, 105, 117, 120, 88, 115}
  THEN IF k > Len(args) THEN Raised
       ELSE IF args[k].t = "float" THEN Unmodelled
       ELSE IF f[i + 1] = 115 THEN Next(Str(args[k]), i + 2, k + 1)
       ELSE IF args[k].t # "int" THEN Raised
       ELSE IF f[i + 1] \in {120, 88}
            THEN Next(FormatHex(args[k], f[i + 1] = 88), i + 2, k + 1)
            ELSE Next(FormatDecimal(args[k]), i + 2, k + 1)
  ELSE IF f[i + 1] \in {35, 48, 45, 32, 43, 49, 50, 51, 52, 53, 54, 55, 56, 57, 42, 46, 104, 108, 76, 99, 111, 101, 69, 102, 70, 103, 71, 114, 97}
  THEN Unmodelled
  ELSE Raised

PercentFormat(f, args) ==
  Only({ PercentFrom(g, args, 1, 1) : g \in {f} })

\* ---- StaticTraceentry.__init__ from the format string on ------------------
DumpSuffix == <<32, 61, 40, 100, 117, 109, 112, 41, 61, 32, 34, 37, 115, 34>>

\* the for loop over the declared arguments: formats[i] raises IndexError
\* when the directives run out, get_arg raises when a read fails. at holds
\* the offset each value was read at.
RECURSIVE ExtractArgs(_, _, _, _, _, _, _)
ExtractArgs(args_raw, arg_types, formats, i, off, acc, endian) ==
  IF i > Len(arg_types) THEN [ok |-> TRUE, args |-> acc.args, at |-> acc.at]
  ELSE IF i > Len(formats) THEN [ok |-> FALSE, args |-> acc.args, at |-> acc.at]
  ELSE Only({ IF ~r.ok THEN [ok |-> FALSE, args |-> acc.args, at |-> acc.at]
              ELSE ExtractArgs(args_raw, arg_types, formats, i + 1, r.offset,
                               [args |-> Append(acc.args, r.value),
                                at |-> Append(acc.at, off)], endian) :
              r \in { get_arg(args_raw, off, arg_types[i], formats[i], endian) } })

\* the text of an argument type in an error message
TypeText(t) ==
  CASE t = "uint8" -> <<117, 105, 110, 116, 56>>
    [] t = "int8" -> <<105, 110, 116, 56>>
    [] t = "uint16" -> <<117, 105, 110, 116, 49, 54>>
    [] t = "int16" -> <<105, 110, 116, 49, 54>>
    [] t = "uint32" -> <<117, 105, 110, 116, 51, 50>>
    [] t = "int32" -> <<105, 110, 116, 51, 50>>
    [] t = "uint64" -> <<117, 105, 110, 116, 54, 52>>
    [] t = "int64" -> <<105, 110, 116, 54, 52>>
    [] t = "uint128" -> <<117, 105, 110, 116, 49, 50, 56>>
    [] t = "int128" -> <<105, 110, 116, 49, 50, 56>>
    [] t = "float" -> <<102, 108, 111, 97, 116>>
    [] t = "double" -> <<100, 111, 117, 98, 108, 101>>
    [] t = "char*" -> <<99, 104, 97, 114, 42>>
    [] t = "<dump>" -> <<60, 100, 117, 109, 112, 62>>
    [] t = "pointer" -> <<112, 111, 105, 110, 116, 101, 114>>
    [] OTHER -> <<117, 110, 107, 110, 111, 119, 110, 32, 116, 121, 112, 101>>

\* error_str of the first except clause up to " with "; the text of the
\* exception and the traceback that follow it are not modelled
ExtractingFailed == <<69, 120, 116, 114, 97, 99, 116, 105, 110, 103, 32, 65, 114, 103, 117, 109, 101, 110, 116, 32, 102, 97, 105, 108, 101, 100, 32, 34>>

ExtractFailedText(format, file, line) ==
  ExtractingFailed \o format \o <<34, 32, 102, 114, 111, 109, 32>> \o file \o <<58>>
    \o Decimal(line) \o <<32, 119, 105, 116, 104, 32>>

\* error_str of the second except clause
RECURSIVE ArgsText(_, _, _)
ArgsText(arg_types, args, i) ==
  IF i > Len(arg_types) \/ i > Len(args) THEN <<>>
  ELSE TypeText(arg_types[i]) \o <<58, 32, 34>> \o Str(args[i])
         \o <<34, 44, 32>> \o ArgsText(arg_types, args, i + 1)

\* self.formatted of the second except clause
FormatFailedText(format, file, line, arg_types, args) ==
  <<102, 111, 114, 109, 97, 116, 105, 110, 103, 32, 102, 97, 105, 108, 101, 100, 32, 102, 111, 114, 32, 32, 34>>
    \o format \o <<34, 32, 102, 114, 111, 109, 32>> \o file \o <<58>>
    \o Decimal(line) \o <<32, 119, 105, 116, 104, 32, 97, 114, 103, 115, 32, 91>>
    \o ArgsText(arg_types, args, 1) \o <<93>>

\* the assertion behind the loop: a directive for every declared argument
\* and no directive more. CountAny stands for a loop without it.
CountAny(argument_count, formats) == TRUE

CountMatches(argument_count, formats) == argument_count = Len(formats)

\* the arguments of a static entry as __init__ extracts them
StaticArgsWith(entry, d, format, formats, arg_types, endian) ==
  Only({ [ok |-> x.ok /\ CountMatches(d.argument_count, formats),
          args |-> x.args, at |-> x.at,
          format |-> format, formats |-> formats, arg_types |-> arg_types] :
         x \in { ExtractArgs(entry.args_raw, arg_types, formats, 1, 0,
                             [args |-> <<>>, at |-> <<>>], endian) } })

StaticArgs(entry, d, endian) ==
  Only({ Only({ StaticArgsWith(entry, d, format, formats,
                               [i \in 1..Len(d.argument_type_array) |->
                                  arg_type_to_string(d.argument_type_array[i])],
                               endian) :
                formats \in { finditer(format) } }) :
         format \in { IF d.type = 2 THEN d.format \o DumpSuffix ELSE d.format } })

\* the message of a static entry whose arguments were extracted
Formatted(d, x) ==
  IF ~x.ok THEN ExtractFailedText(x.format, d.file, d.line)
  ELSE IF d.argument_count = 0 THEN x.format
  ELSE Only({ IF p.kind = "text" THEN p.text
              ELSE IF p.kind = "raise"
              THEN FormatFailedText(x.format, d.file, d.line, x.arg_types, x.args)
              ELSE <<>> :
              p \in { PercentFormat(clean_up_format(x.format), x.args) } })

\* whether the % operator meets a directive this model does not render
Unmodelled(d, x) ==
  /\ x.ok /\ d.argument_count # 0
  /\ PercentFormat(clean_up_format(x.format), x.args).kind = "unmodelled"

\* StaticTraceentry.__init__ behind the descriptor parse
StaticEntryOf(entry, d, endian) ==
  IF d.kind = "raise" THEN d
  ELSE Only({ IF Unmodelled(d, x) THEN [kind |-> "unmodelled"]
              ELSE [kind |-> "event", type |-> "static", file |-> d.file,
                    line |-> d.line, formatted |-> Formatted(d, x)] :
              x \in { StaticArgs(entry, d, endian) } })

\* StaticTraceentry.__init__
StaticTraceentry(entry, meta, endian) ==
  Only({ StaticEntryOf(entry, d, endian) :
         d \in { StaticDescriptor(entry, meta, endian) } })

(***************************************************************************)
(* File Header Parser, Metadata Stack Reader                               *)
(***************************************************************************)
MagicLittle  == <<63, 35, 36, 126, 116, 114, 97, 99, 101, 98, 117, 102, 102, 101, 114, 0>>
MagicBig     == <<99, 97, 114, 116, 126, 36, 35, 63, 0, 114, 101, 102, 102, 117, 98, 101>>
MagicSwapped == <<35, 63, 126, 36, 114, 116, 99, 97, 98, 101, 102, 117, 101, 102, 0, 114>>

\* swap_odd_bytes: the bytes of every pair change places, a last odd byte stays
swap_odd_bytes(data) ==
  [i \in 1..Len(data) |->
     IF i = Len(data) /\ Len(data) % 2 = 1 THEN data[i]
     ELSE IF i % 2 = 1 THEN data[i + 1] ELSE data[i - 1]]

\* a header check that accepts every version
VersionAny(major, minor) == TRUE

\* major == 1 and minor <= 2
VersionSupported(major, minor) == major = 1 /\ minor <= 2

\* the checks at the head of Tracebuffer.__init__ and the three region offsets
Rejected == [ok |-> FALSE]

FileHeader(raw0) ==
  LET raw  == IF PySlice(raw0, 0, 16) = MagicSwapped THEN swap_odd_bytes(raw0) ELSE raw0
      file_magic == get(raw, 0, 16)
      endian == IF file_magic.val = MagicLittle THEN "little" ELSE "big"
      head == get(raw, 0, 56)
  IN
  IF ~file_magic.ok \/ file_magic.val \notin {MagicLittle, MagicBig} THEN Rejected
  ELSE IF ~head.ok \/ crc8(head.val) # 0 THEN Rejected
  ELSE
  LET file_version  == get_int(raw, 16, 8, endian).val
      version_major == (file_version \div 65536) % 256
      version_minor == (file_version \div 256) % 256
  IN
  IF ~VersionSupported(version_major, version_minor) THEN Rejected
  ELSE [ ok |-> TRUE, raw |-> raw, endian |-> endian,
         version |-> <<version_major, version_minor>>,
         definition_offset |-> get_int(raw, 24, 8, endian).val,
         ringbuffer_offset |-> get_int(raw, 32, 8, endian).val,
         stack_offset      |-> get_int(raw, 40, 8, endian).val ]

\* the header fields and the body read by Ringbuffer.__init__
RingHeader(file_offset, raw, endian, cv, recover_all) ==
  LET mutex_len == get_const_mutex_len(cv)
      F(k) == get_int(raw, file_offset + mutex_len + k, 8, endian)
      version == get_int(raw, file_offset, 8, endian)
      mutex   == get(raw, file_offset + 8, mutex_len)
      reserved == get(raw, file_offset + mutex_len + 56, 40)
      body    == get(raw, file_offset + mutex_len + 96, F(8).val)
  IN [ ok |-> /\ version.ok /\ mutex.ok /\ reserved.ok
              /\ \A k \in {8, 16, 24, 32, 40, 48} : F(k).ok
              /\ (F(32).val # 0 => body.ok /\ Len(body.val) = F(8).val),
       file_offset |-> file_offset, version |-> cv, endian |-> endian,
       body |-> body.val, body_size |-> F(8).val,
       wrapped |-> F(16).val, dropped |-> F(24).val, entries_count |-> F(32).val,
       next_free |-> F(40).val, last_valid |-> F(48).val,
       mutex_locked |-> \E i \in 1..Len(mutex.val) : mutex.val[i] # 0,
       recover_all |-> recover_all ]

\* Ringbuffer(file_offset, raw, recover_all): the entries, or an exception
Ringbuffer(file_offset, raw, endian, cv, recover_all) ==
  LET r == RingHeader(file_offset, raw, endian, cv, recover_all)
  IN IF r.ok THEN RingEntries(r) ELSE [ok |-> FALSE, entries |-> <<>>]

\* The digest of a metadata record. MD5 itself is not computed here: md5 is a
\* 16-byte mixing function of the data that tells the records of the model
\* apart, so that a stored hash can match or fail to match.
RECURSIVE Md5Mix(_, _, _, _)
Md5Mix(data, lo, hi, w) ==
  IF lo > hi THEN 0
  ELSE IF lo = hi THEN ((IF w THEN lo ELSE 1) * data[lo]) % 256
  ELSE LET mid == (lo + hi) \div 2
       IN (Md5Mix(data, lo, mid, w) + Md5Mix(data, mid + 1, hi, w)) % 256

md5(data) ==
  LET n  == Len(data)
      s0 == Md5Mix(data, 1, n, FALSE)
      s1 == Md5Mix(data, 1, n, TRUE)
  IN [k \in 1..16 |-> (s1 + k * s0 + k * n) % 256]

\* Stack_Entry.__init__
Stack_Entry(file_offset, raw, endian) ==
  LET head == get(raw, file_offset, 29)
      hash == get(raw, file_offset, 16)
      body_size == get_int(raw, file_offset + 24, 4, endian)
      body == get(raw, file_offset + 29, body_size.val)
      size_field == get(raw, file_offset + 24, 4)
  IN [ ok |-> /\ head.ok /\ crc8(head.val) = 0
              /\ body_size.ok /\ body.ok
              /\ md5(size_field.val \o body.val) = hash.val,
       file_offset |-> file_offset + 29, body |-> body.val,
       body_size |-> body_size.val ]

\* the loop of Stack.__init__ over the records of the stack body
RECURSIVE StackFrom(_, _, _, _, _, _)
StackFrom(raw, base, off, stack_body_size, endian, acc) ==
  IF off >= stack_body_size THEN [ok |-> TRUE, entries |-> acc]
  ELSE LET e == Stack_Entry(base + off, raw, endian)
       IN IF ~e.ok THEN [ok |-> FALSE, entries |-> <<>>]
          ELSE StackFrom(raw, base, off + 29 + e.body_size, stack_body_size, endian,
                         Append(acc, [file_offset |-> e.file_offset, body |-> e.body]))

\* Stack(file_offset, raw): the records, or an exception
Stack(file_offset, raw, endian, cv) ==
  LET mutex_len == get_const_mutex_len(cv)
      version  == get_int(raw, file_offset, 8, endian)
      mutex    == get(raw, file_offset + 8, mutex_len)
      reserved == get(raw, file_offset + mutex_len + 8, 40)
      stack_body_size == get_int(raw, file_offset + mutex_len + 48, 8, endian)
  IN IF ~(version.ok /\ version.val = 1 /\ mutex.ok /\ reserved.ok /\ stack_body_size.ok
          /\ stack_body_size.val <= Len(raw) - file_offset)
     THEN [ok |-> FALSE, entries |-> <<>>]
     ELSE StackFrom(raw, file_offset + mutex_len + 56, 0, stack_body_size.val, endian, <<>>)

\* one iteration of the loop over ringbuffer.entries in Tracebuffer.__init__
\* for the file t
ResolveEntryIn(t, entry) ==
  LET in_file == entry.offset
  IN IF in_file = 0 THEN [kind |-> "skip"]
     ELSE IF in_file = 1 THEN DynamicTraceentry(entry, t.endian)
     ELSE LET stack_entry == get_blob(t.stack, in_file)
              magic == get(t.raw, in_file, 1)
          IN IF ~magic.ok THEN Raise("AssertionError")
             ELSE IF magic.val = <<OpenBrace>>
                  THEN StaticTraceentry(entry, stack_entry, t.endian)
                  ELSE [kind |-> "skip"]

ResolveEntry(entry) == ResolveEntryIn(tb, entry)

\* an event of Tracebuffer.entries: the index of its ring entry, the fields of
\* the ring entry the output shows, what was rendered
Event(i, entry, r) ==
  [index |-> i, type |-> r.type, file |-> r.file, line |-> r.line,
   formatted |-> r.formatted,
   timestamp_ns |-> entry.timestamp_ns, pid |-> entry.pid, tid |-> entry.tid]

\* the whole loop: the events of the file, or an exception
RECURSIVE ResolveFrom(_, _, _)
ResolveFrom(t, i, acc) ==
  IF i > Len(t.ring_entries) THEN [ok |-> TRUE, entries |-> acc]
  ELSE LET r == ResolveEntryIn(t, t.ring_entries[i])
       IN IF r.kind = "raise" THEN [ok |-> FALSE, entries |-> <<>>]
          ELSE IF r.kind = "skip" THEN ResolveFrom(t, i + 1, acc)
          ELSE ResolveFrom(t, i + 1, Append(acc, Event(i, t.ring_entries[i], r)))

\* ---- the files handed to the decoder --------------------------------------
MaxEntries == 2    \* ring entries of a modelled file

\* a static descriptor as the producer stores it
DescriptorBytes(size, kind, line, types, strings, endian) ==
  <<OpenBrace>> \o IntBytes(size, 4, endian) \o <<kind>> \o IntBytes(line, 4, endian)
    \o <<Len(types)>> \o types \o <<0>> \o strings

Descriptor(kind, line, types, strings, endian) ==
  DescriptorBytes(12 + Len(types) + Len(strings), kind, line, types, strings, endian)

D_ok(endian)         == Descriptor(1, 7, <<>>, <<97, 0, 120, 10, 0>>, endian)
D_badkind(endian)    == Descriptor(3, 8, <<>>, <<97, 0, 120, 0>>, endian)
D_badstrings(endian) == Descriptor(1, 9, <<>>, <<97, 0, 120>>, endian)
D_trunc(endian)      == DescriptorBytes(40, 1, 5, <<>>, <<97, 0, 120, 0>>, endian)
D_other(endian)      == Descriptor(1, 3, <<>>, <<98, 0, 121, 0>>, endian)

\* the body of the first metadata record; the second one holds D_other
MetaBody(endian) ==
  D_ok(endian) \o D_badkind(endian) \o D_badstrings(endian) \o D_trunc(endian)

\* the 56 bytes of the file header; crcfix is added to the CRC byte
HeaderBytes(magic, version, definition_offset, ringbuffer_offset, stack_offset, crcfix, endian) ==
  LET h == magic \o IntBytes(version, 8, endian)
             \o IntBytes(definition_offset, 8, endian)
             \o IntBytes(ringbuffer_offset, 8, endian)
             \o IntBytes(stack_offset, 8, endian) \o Zeros(7)
  IN h \o <<(crc8(h) + crcfix) % 256>>

\* the definition region: the buffer name, here "{"
DefinitionBytes(endian) == IntBytes(1, 8, endian) \o <<OpenBrace>>

\* a metadata record; hashfix is added to the first byte of the stored hash,
\* crcfix to the CRC byte of the record head
StackRecord(body, hashfix, crcfix, endian) ==
  LET sz   == IntBytes(Len(body), 4, endian)
      hash == md5(sz \o body)
      h    == <<(hash[1] + hashfix) % 256>> \o Tail(hash) \o Zeros(8) \o sz
  IN h \o <<(crc8(h) + crcfix) % 256>> \o body

\* the metadata stack region (format 1.2: a 64-byte mutex)
StackRegion(records, endian) ==
  IntBytes(1, 8, endian) \o Zeros(64) \o Zeros(40)
    \o IntBytes(Len(records), 8, endian) \o records

\* the ring region: the frames from position 0 on in a body of body_size bytes
RingRegion(frames, body_size, count, endian) ==
  IntBytes(1, 8, endian) \o Zeros(64) \o IntBytes(body_size, 8, endian)
    \o IntBytes(0, 8, endian) \o IntBytes(0, 8, endian) \o IntBytes(count, 8, endian)
    \o IntBytes(Len(frames), 8, endian) \o IntBytes(0, 8, endian) \o Zeros(40)
    \o frames \o Zeros(body_size - Len(frames))

\* where the regions lie in the file
Off_definition == 56
Off_name       == Off_definition + 8
Off_stack      == Off_name + 1
Off_ok         == Off_stack + 64 + 56 + 29
Off_badkind(en)    == Off_ok + Len(D_ok(en))
Off_badstrings(en) == Off_badkind(en) + Len(D_badkind(en))
Off_trunc(en)      == Off_badstrings(en) + Len(D_badstrings(en))
Off_other(en)      == Off_ok + Len(MetaBody(en)) + 29
Off_ring(en)       == Off_other(en) + Len(D_other(en))

\* the bytes before the metadata stack: header and definition
Prefix(magic, version, crcfix, endian) ==
  HeaderBytes(magic, version, Off_definition, Off_ring(endian), Off_stack, crcfix, endian)
    \o DefinitionBytes(endian)

\* the payload of a dynamic entry: file "a", line 9, format "%"
DynPayload(endian) == <<97, 0>> \o IntBytes(9, 8, endian) \o <<Percent, 0>>

\* body_size of the ring of a modelled file: room for MaxEntries frames
TbRingSize == MaxEntries * (5 + 22 + 12) + 1

\* what may be wrong with a file
Damages ==
  {"none", "swapped", "magic", "crc", "major", "minor", "md5", "stackcrc", "ring"}

\* the ring entries a file may hold: [good, record, body]
EntryChoices(endian) ==
  LET E(good, record, tag, args) ==
        [good |-> good, record |-> record,
         body |-> EntryBody(tag, 1, 1, 1, args, endian)]
  IN { E(TRUE, 0, 1, DynPayload(endian)),
       E(TRUE, 1, Off_ok, <<>>),
       E(TRUE, 2, Off_other(endian), <<>>),
       E(FALSE, 0, 0, <<>>),
       E(FALSE, 0, 1, <<>>),
       E(FALSE, 1, Off_ok + 1, <<>>),
       E(FALSE, 0, Off_name, <<>>),
       E(FALSE, 0, Off_ring(endian) + 96 + 64 + TbRingSize + 3, <<>>),
       E(FALSE, 1, Off_badkind(endian), <<>>),
       E(FALSE, 1, Off_badstrings(endian), <<>>),
       E(FALSE, 1, Off_trunc(endian), <<>>) }

\* the frames of the ring of a file
RECURSIVE Frames(_, _)
Frames(choices, endian) ==
  IF choices = <<>> THEN <<>>
  ELSE FrameBytes(Head(choices).body, endian) \o Frames(Tail(choices), endian)

\* the header and the definition region of a file
FilePrefix(endian, damage) ==
  LET magic   == IF endian = "big" THEN MagicBig ELSE MagicLittle
      version == IF damage = "major" THEN 2 * 65536
                 ELSE IF damage = "minor" THEN 65536 + 3 * 256 ELSE 65536 + 2 * 256 + 4
  IN Prefix(IF damage = "magic" THEN <<0>> \o Tail(magic) ELSE magic,
            version, IF damage = "crc" THEN 1 ELSE 0, endian)

\* the metadata stack of a file: two records, the second one holds D_other
FileStack(endian, damage) ==
  StackRegion(StackRecord(MetaBody(endian), 0, 0, endian)
                \o StackRecord(D_other(endian),
                               IF damage = "md5" THEN 1 ELSE 0,
                               IF damage = "stackcrc" THEN 1 ELSE 0, endian),
              endian)

\* the ring of a file
FileRing(endian, damage, choices) ==
  LET frames == IF damage = "ring" THEN HeadBytes(255, endian)
                ELSE Frames(choices, endian)
      count  == IF damage = "ring" THEN 1 ELSE Len(choices)
  IN RingRegion(frames, TbRingSize, count, endian)

\* a file of the given bytes, as Tracebuffer.__init__ finds it
FileOfBytes(bytes, endian, damage, choices) ==
  [ raw    |-> IF damage = "swapped" THEN swap_odd_bytes(bytes) ELSE bytes,
    recover_all |-> FALSE,
    \* filled in by the parse
    endian |-> "none", version |-> <<0, 0>>,
    ringbuffer_offset |-> 0, stack_offset |-> 0,
    ring_entries |-> <<>>, stack |-> <<>>,
    \* what the producer wrote, for the statement of the properties
    damage |-> damage,
    good   |-> [i \in 1..Len(choices) |-> choices[i].good],
    record |-> [i \in 1..Len(choices) |-> choices[i].record] ]

\* the bytes of a file as they lie on disk
FileRaw(endian, damage, choices) ==
  FileOfBytes(FilePrefix(endian, damage) \o FileStack(endian, damage)
                \o FileRing(endian, damage, choices),
              endian, damage, choices).raw

\* the files with the given damage: one per list of entries
FilesWith(endian, damage, lists) ==
  LET head == FilePrefix(endian, damage) \o FileStack(endian, damage)
  IN IF Len(head) = 0 THEN {}
     ELSE { FileOfBytes(head \o FileRing(endian, damage, choices),
                        endian, damage, choices) : choices \in lists }

\* an entry of record 1 and one of record 2, both intact
TwoRecords(endian) ==
  << [good |-> TRUE, record |-> 1, body |-> EntryBody(Off_ok, 1, 1, 1, <<>>, endian)],
     [good |-> TRUE, record |-> 2,
      body |-> EntryBody(Off_other(endian), 1, 1, 1, <<>>, endian)] >>

\* the lists of at most MaxEntries ring entries, at most one of them malformed
EntryLists(endian) ==
  { choices \in UNION { [1..n -> EntryChoices(endian)] : n \in 0..MaxEntries } :
      Cardinality({i \in 1..Len(choices) : ~choices[i].good}) <= 1 }

\* the files of the model: every such list of entries in an intact file, one
\* list in the damaged ones
Files ==
  UNION { FilesWith(endian, "none", EntryLists(endian)) : endian \in {"little", "big"} }
  \cup
  UNION { FilesWith(endian, damage, {TwoRecords(endian)}) :
          endian \in {"little", "big"}, damage \in Damages \ {"none"} }

NoFile == [raw |-> <<>>]

InitTb ==
  /\ tb \in Files
  /\ tpc = "header" /\ tpos = 1 /\ tb_entries = <<>>

\* magic, header CRC and version are accepted: the offsets of the regions are known
HeaderAccept ==
  /\ tpc = "header"
  /\ LET h == FileHeader(tb.raw)
     IN /\ h.ok
        /\ tb' = [tb EXCEPT !.raw = h.raw, !.endian = h.endian, !.version = h.version,
                            !.ringbuffer_offset = h.ringbuffer_offset,
                            !.stack_offset = h.stack_offset]
  /\ tpc' = "ring"
  /\ UNCHANGED <<tpos, tb_entries>>
  /\ UNCHANGED NotTb

\* a failed assertion on magic, header CRC or version leaves Tracebuffer.__init__
HeaderReject ==
  /\ tpc = "header"
  /\ ~FileHeader(tb.raw).ok
  /\ tpc' = "raised"
  /\ UNCHANGED <<tb, tpos, tb_entries>>
  /\ UNCHANGED NotTb

\* self.ringbuffer = Ringbuffer(ringbuffer_offset, raw, recover_all)
ParseRing ==
  /\ tpc = "ring"
  /\ LET r == Ringbuffer(tb.ringbuffer_offset, tb.raw, tb.endian, tb.version,
                         tb.recover_all)
     IN IF r.ok THEN tb' = [tb EXCEPT !.ring_entries = r.entries] /\ tpc' = "stack"
        ELSE tpc' = "raised" /\ UNCHANGED tb
  /\ UNCHANGED <<tpos, tb_entries>>
  /\ UNCHANGED NotTb

\* self.stack = Stack(stack_offset, raw)
ParseStack ==
  /\ tpc = "stack"
  /\ LET k == Stack(tb.stack_offset, tb.raw, tb.endian, tb.version)
     IN IF k.ok THEN tb' = [tb EXCEPT !.stack = k.entries] /\ tpc' = "resolve"
        ELSE tpc' = "raised" /\ UNCHANGED tb
  /\ UNCHANGED <<tpos, tb_entries>>
  /\ UNCHANGED NotTb

\* the loop is over
ResolveDone ==
  /\ tpc = "resolve" /\ tpos > Len(tb.ring_entries)
  /\ tpc' = "done"
  /\ UNCHANGED <<tb, tpos, tb_entries>>
  /\ UNCHANGED NotTb

\* a damaged entry or one whose descriptor magic is wrong: continue
ResolveSkip ==
  /\ tpc = "resolve" /\ tpos <= Len(tb.ring_entries)
  /\ ResolveEntry(tb.ring_entries[tpos]).kind = "skip"
  /\ tpos' = tpos + 1
  /\ UNCHANGED <<tb, tpc, tb_entries>>
  /\ UNCHANGED NotTb

\* a loop that puts the event of an entry in front of the earlier ones
ResolveEventInFront ==
  /\ tpc = "resolve" /\ tpos <= Len(tb.ring_entries)
  /\ LET r == ResolveEntry(tb.ring_entries[tpos])
     IN /\ r.kind = "event"
        /\ tb_entries' = <<Event(tpos, tb.ring_entries[tpos], r)>> \o tb_entries
  /\ tpos' = tpos + 1
  /\ UNCHANGED <<tb, tpc>>
  /\ UNCHANGED NotTb

\* the entry becomes an event of the file
ResolveEvent ==
  /\ tpc = "resolve" /\ tpos <= Len(tb.ring_entries)
  /\ LET r == ResolveEntry(tb.ring_entries[tpos])
     IN /\ r.kind = "event"
        /\ tb_entries' = Append(tb_entries, Event(tpos, tb.ring_entries[tpos], r))
  /\ tpos' = tpos + 1
  /\ UNCHANGED <<tb, tpc>>
  /\ UNCHANGED NotTb

\* an exception leaves Tracebuffer.__init__: genTracebuffer reports the file failed
ResolveRaise ==
  /\ tpc = "resolve" /\ tpos <= Len(tb.ring_entries)
  /\ ResolveEntry(tb.ring_entries[tpos]).kind = "raise"
  /\ tpc' = "raised"
  /\ UNCHANGED <<tb, tpos, tb_entries>>
  /\ UNCHANGED NotTb

TbOff == tb = NoFile /\ tpc = "off" /\ tpos = 0 /\ tb_entries = <<>>

NextTb ==
  \/ HeaderAccept
  \/ HeaderReject
  \/ ParseRing
  \/ ParseStack
  \/ ResolveDone
  \/ ResolveSkip
  \/ ResolveEvent
  \/ ResolveRaise

(***************************************************************************)
(* Batch decoding: genTracebuffer in one worker per file, __main__          *)
(***************************************************************************)
MaxFiles == 2      \* input files of a batch

\* Definition(file_offset, raw): the name of the buffer
Definition(file_offset, raw, endian) ==
  LET size == BytesToInt(PySlice(raw, file_offset, file_offset + 8), endian)
  IN PySlice(raw, file_offset + 8, file_offset + 8 + size)

Failed == [ok |-> FALSE]

\* Tracebuffer.__init__ once the resolve loop has ended with e
AfterResolve(h, rh, e) ==
  IF ~e.ok THEN Failed
  ELSE [ ok |-> TRUE, version |-> h.version,
         definition |-> Definition(h.definition_offset, h.raw, h.endian),
         body_size |-> rh.body_size, used |-> UsedOf(rh),
         dropped |-> rh.dropped, wrapped |-> rh.wrapped,
         entries |-> e.entries ]

\* ... once Stack(stack_offset, raw) has ended with k
AfterStack(h, rh, r, k) ==
  IF ~k.ok THEN Failed
  ELSE Only({ AfterResolve(h, rh, e) :
              e \in { ResolveFrom([raw |-> h.raw, endian |-> h.endian,
                                   ring_entries |-> r.entries, stack |-> k.entries],
                                  1, <<>>) } })

\* ... once the walk over the ring has ended with r
AfterRing(h, rh, r) ==
  IF ~r.ok THEN Failed
  ELSE Only({ AfterStack(h, rh, r, k) :
              k \in { Stack(h.stack_offset, h.raw, h.endian, h.version) } })

\* ... once the header rh of the ring region has been read
AfterRingHeader(h, rh) ==
  IF ~rh.ok THEN Failed
  ELSE Only({ AfterRing(h, rh, r) : r \in { RingEntries(rh) } })

\* ... once the header checks have ended with h
AfterHeader(h, recover_all) ==
  IF ~h.ok THEN Failed
  ELSE Only({ AfterRingHeader(h, rh) :
              rh \in { RingHeader(h.ringbuffer_offset, h.raw, h.endian, h.version,
                                  recover_all) } })

\* Tracebuffer(raw, recover_all): the decoded file, or an exception
Tracebuffer(raw0, recover_all) ==
  Only({ AfterHeader(h, recover_all) : h \in { FileHeader(raw0) } })

\* genTracebuffer(folder_name, file_path, recover): the Tracebuffer, or None
\* after any exception
genTracebuffer(file) ==
  Only({ IF t.ok THEN t ELSE None : t \in { Tracebuffer(file.raw, file.recover_all) } })

\* Tracebuffer.to_csv: seven info rows, then one row per entry in the order of
\* self.entries; the timestamp column is kept in ns (timestamp_to_str prints it
\* as zero-padded seconds with nine decimals, which keeps the order)
RECURSIVE EntryRows(_, _)
EntryRows(name, es) ==
  IF es = <<>> THEN <<>>
  ELSE << [timestamp |-> Head(es).timestamp_ns, tracebuffer |-> name,
           pid |-> Head(es).pid, tid |-> Head(es).tid,
           formatted |-> Head(es).formatted,
           file |-> Head(es).file, line |-> Head(es).line] >>
       \o EntryRows(name, Tail(es))

to_csv(t) ==
  LET buffer_name == decode(t.definition)
      Info(key, value) ==
        [timestamp |-> 0, tracebuffer |-> buffer_name, pid |-> -1, tid |-> -1,
         formatted |-> <<key, value>>, file |-> "clltk_decoder.py", line |-> 0]
  IN << Info("version", t.version), Info("size", t.body_size),
        Info("entries", Len(t.entries)), Info("in_use", t.used),
        Info("dropped", t.dropped), Info("wrapped", t.wrapped),
        Info("path", buffer_name) >>
     \o EntryRows(buffer_name, t.entries)

\* for tb in tracebuffers: if tb is not None: csv_data += tb.to_csv()
RECURSIVE CsvOf(_)
CsvOf(tbs) ==
  IF tbs = <<>> THEN <<>>
  ELSE (IF Head(tbs) # None THEN to_csv(Head(tbs)) ELSE <<>>) \o CsvOf(Tail(tbs))

\* a dynamic entry stamped 2; the other entries of the model are stamped 1
LaterEntry(endian) ==
  [good |-> TRUE, record |-> 0,
   body |-> EntryBody(1, 1, 1, 2, DynPayload(endian), endian)]

\* the input files of the batches: the damaged files, intact ones whose only
\* entry is malformed, and one whose only entry is stamped later
BatchFiles ==
  UNION { FilesWith("little", damage, {TwoRecords("little")}) : damage \in Damages }
  \cup FilesWith("big", "none",
                 {l \in EntryLists("big") :
                    Len(l) = 1 /\ l[1].record = 0 /\ ~l[1].good}
                 \cup {<<LaterEntry("big")>>})

\* exit_code = 1 in genTracebuffer, exit_code = 0 at the start of __main__
ExitFailure == 1
ExitSuccess == 0

\* the sets of at most n input files
RECURSIVE Batches(_)
Batches(n) ==
  IF n = 0 THEN {{}}
  ELSE LET smaller == Batches(n - 1)
       IN smaller \cup {b \cup {f} : b \in smaller, f \in BatchFiles}

BatchOff ==
  /\ batch = {} /\ fut = <<>> /\ result = <<>> /\ worker_exit_code = <<>>
  /\ tracebuffers = <<>> /\ csv_data = <<>> /\ exit_code = 0 /\ bpc = "off"

\* the futures are submitted: one worker per file, each worker process starts
\* with its own copy of exit_code
InitBatch ==
  /\ batch \in Batches(MaxFiles) \ {{}}
  /\ fut = [f \in batch |-> "queued"]
  /\ result = [f \in batch |-> None]
  /\ worker_exit_code = [f \in batch |-> ExitSuccess]
  /\ tracebuffers = <<>> /\ csv_data = <<>>
  /\ exit_code = ExitSuccess
  /\ bpc = "pool"

\* the worker of f runs genTracebuffer and returns; a failure sets exit_code in
\* the worker's process
Work(f) ==
  /\ bpc = "pool" /\ fut[f] = "queued"
  /\ \E tb_or_none \in {genTracebuffer(f)} :
       /\ result' = [result EXCEPT ![f] = tb_or_none]
       /\ worker_exit_code' =
            [worker_exit_code EXCEPT ![f] = IF tb_or_none = None THEN ExitFailure ELSE @]
  /\ fut' = [fut EXCEPT ![f] = "done"]
  /\ UNCHANGED <<batch, tracebuffers, csv_data, exit_code, bpc>>
  /\ UNCHANGED NotBatch

\* a discarded design: a failed file throws away what was collected
CollectOrAbort(f) ==
  /\ bpc = "pool" /\ fut[f] = "done"
  /\ tracebuffers' = IF result[f] = None THEN <<>> ELSE Append(tracebuffers, result[f])
  /\ fut' = [fut EXCEPT ![f] = "collected"]
  /\ UNCHANGED <<batch, result, worker_exit_code, csv_data, exit_code, bpc>>
  /\ UNCHANGED NotBatch

\* as_completed hands over a finished future: tracebuffers.append(future.result())
Collect(f) ==
  /\ bpc = "pool" /\ fut[f] = "done"
  /\ tracebuffers' = Append(tracebuffers, result[f])
  /\ fut' = [fut EXCEPT ![f] = "collected"]
  /\ UNCHANGED <<batch, result, worker_exit_code, csv_data, exit_code, bpc>>
  /\ UNCHANGED NotBatch

\* the pool is left; the rows of the decoded files are gathered and written
WriteOutput ==
  /\ bpc = "pool" /\ \A f \in batch : fut[f] = "collected"
  /\ csv_data' = CsvOf(tracebuffers)
  /\ bpc' = "written"
  /\ UNCHANGED <<batch, fut, result, worker_exit_code, tracebuffers, exit_code>>
  /\ UNCHANGED NotBatch

\* exit(exit_code)
Exit ==
  /\ bpc = "written"
  /\ bpc' = "exited"
  /\ UNCHANGED <<batch, fut, result, worker_exit_code, tracebuffers, csv_data, exit_code>>
  /\ UNCHANGED NotBatch

NextBatch ==
  \/ \E f \in batch : Work(f)
  \/ \E f \in batch : Collect(f)
  \/ WriteOutput
  \/ Exit

(***************************************************************************)
(* One worker process of the pool decoding several files: the globals       *)
(* current_Endian and current_version outlive a call of genTracebuffer      *)
(***************************************************************************)
MaxJobs == 2       \* files one worker decodes one after the other

\* a file of format 1.1 (32-byte mutex): no metadata record, one dynamic entry
FileV11(endian) ==
  LET frames == FrameBytes(EntryBody(1, 1, 1, 1, DynPayload(endian), endian), endian)
      stack  == IntBytes(1, 8, endian) \o Zeros(32) \o Zeros(40) \o IntBytes(0, 8, endian)
      ring   == IntBytes(1, 8, endian) \o Zeros(32) \o IntBytes(TbRingSize, 8, endian)
                  \o IntBytes(0, 8, endian) \o IntBytes(0, 8, endian)
                  \o IntBytes(1, 8, endian) \o IntBytes(Len(frames), 8, endian)
                  \o IntBytes(0, 8, endian) \o Zeros(40)
                  \o frames \o Zeros(TbRingSize - Len(frames))
      head   == HeaderBytes(IF endian = "big" THEN MagicBig ELSE MagicLittle,
                            65536 + 256, Off_definition, Off_stack + Len(stack),
                            Off_stack, 0, endian)
  IN FileOfBytes(head \o DefinitionBytes(endian) \o stack \o ring, endian, "none",
                 << [good |-> TRUE, record |-> 0,
                     body |-> EntryBody(1, 1, 1, 1, DynPayload(endian), endian)] >>)

\* the files handed to a worker: both byte orders, both mutex widths, accepted
\* and rejected ones
WorkerFiles ==
  { FileV11("little"), FileV11("big") }
  \cup UNION { FilesWith("little", damage, {TwoRecords("little")}) :
               damage \in {"none", "swapped", "magic", "minor"} }
  \cup UNION { FilesWith("big", damage, {TwoRecords("big")}) :
               damage \in {"none", "crc", "minor"} }

\* the worker process was forked from the main process, which decodes nothing
InitWorker ==
  /\ current_Endian = "none" /\ current_version = <<0, 0>>
  /\ wqueue \in UNION { [1..n -> WorkerFiles] : n \in 1..MaxJobs }
  /\ wraw = <<>> /\ wresults = <<>> /\ wkpc = "magic"

\* genTracebuffer caught an exception of Tracebuffer.__init__: it returns None
\* and the worker takes its next file
Caught ==
  /\ wresults' = Append(wresults, [file |-> Head(wqueue), result |-> None])
  /\ wqueue' = Tail(wqueue)
  /\ wraw' = <<>>
  /\ wkpc' = IF Len(wqueue) > 1 THEN "magic" ELSE "idle"

\* Tracebuffer.__init__ up to current_Endian = endians[file_magic]
ReadMagic ==
  /\ wkpc = "magic"
  /\ LET raw0 == Head(wqueue).raw
         raw  == IF PySlice(raw0, 0, 16) = MagicSwapped THEN swap_odd_bytes(raw0) ELSE raw0
         file_magic == get(raw, 0, 16)
     IN IF ~file_magic.ok \/ file_magic.val \notin {MagicLittle, MagicBig}
        THEN Caught /\ UNCHANGED <<current_Endian, current_version>>
        ELSE /\ current_Endian' = IF file_magic.val = MagicLittle THEN "little" ELSE "big"
             /\ wraw' = raw /\ wkpc' = "version"
             /\ UNCHANGED <<current_version, wqueue, wresults>>
  /\ UNCHANGED NotWorker

\* a version step that leaves current_version as the first accepted file set it
ReadVersionOnce ==
  /\ wkpc = "version"
  /\ LET head == get(wraw, 0, 56)
         file_version  == get_int(wraw, 16, 8, current_Endian).val
         version_major == (file_version \div 65536) % 256
         version_minor == (file_version \div 256) % 256
     IN IF ~head.ok \/ crc8(head.val) # 0
           \/ ~VersionSupported(version_major, version_minor)
        THEN Caught /\ UNCHANGED current_version
        ELSE /\ current_version' =
                  IF current_version # <<0, 0>> THEN current_version
                  ELSE <<version_major, version_minor>>
             /\ wkpc' = "body"
             /\ UNCHANGED <<wqueue, wraw, wresults>>
  /\ UNCHANGED current_Endian
  /\ UNCHANGED NotWorker

\* ... from the header CRC up to current_version = (version_major, version_minor);
\* get_int reads with current_Endian
ReadVersion ==
  /\ wkpc = "version"
  /\ LET head == get(wraw, 0, 56)
         file_version  == get_int(wraw, 16, 8, current_Endian).val
         version_major == (file_version \div 65536) % 256
         version_minor == (file_version \div 256) % 256
     IN IF ~head.ok \/ crc8(head.val) # 0
           \/ ~VersionSupported(version_major, version_minor)
        THEN Caught /\ UNCHANGED current_version
        ELSE /\ current_version' = <<version_major, version_minor>>
             /\ wkpc' = "body"
             /\ UNCHANGED <<wqueue, wraw, wresults>>
  /\ UNCHANGED current_Endian
  /\ UNCHANGED NotWorker

\* ... the rest of Tracebuffer.__init__ and the return of genTracebuffer: every
\* get_int reads with current_Endian, get_const('mutex_len') with current_version
ReadBody ==
  /\ wkpc = "body"
  /\ \E t \in { AfterHeader([ok |-> TRUE, raw |-> wraw, endian |-> current_Endian,
                             version |-> current_version,
                             definition_offset |-> get_int(wraw, 24, 8, current_Endian).val,
                             ringbuffer_offset |-> get_int(wraw, 32, 8, current_Endian).val,
                             stack_offset |-> get_int(wraw, 40, 8, current_Endian).val],
                            Head(wqueue).recover_all) } :
       wresults' = Append(wresults, [file |-> Head(wqueue),
                                     result |-> IF t.ok THEN t ELSE None])
  /\ wqueue' = Tail(wqueue)
  /\ wraw' = <<>>
  /\ wkpc' = IF Len(wqueue) > 1 THEN "magic" ELSE "idle"
  /\ UNCHANGED <<current_Endian, current_version>>
  /\ UNCHANGED NotWorker

NextWorker ==
  \/ ReadMagic
  \/ ReadVersion
  \/ ReadBody

(***************************************************************************)
(* Ring Buffer Reader: the same frames in a wrapping and in a flat ring     *)
(***************************************************************************)
\* the lists of proper frames that fit into the ring
ProperLayouts(endian) ==
  { l \in Layouts(endian) :
      /\ \A i \in 1..Len(l) : l[i].proper
      /\ Len(l) > 0 /\ Len(Concat(l)) < RingSize }

Undecoded == [ok |-> FALSE, entries |-> <<>>]

WrapOff ==
  /\ wring = NoRing /\ fring = NoRing
  /\ wentries = Undecoded /\ fentries = Undecoded /\ wpc = "off"

\* the frames are written from any position of the body on, and from 0 on
InitWrap ==
  /\ \E endian \in {"little", "big"}, start \in 0..(RingSize - 1) :
       \E layout \in ProperLayouts(endian) :
          /\ wring = RingOf(endian, layout, start, 0, Len(layout), FALSE, FALSE)
          /\ fring = RingOf(endian, layout, 0, 0, Len(layout), FALSE, FALSE)
  /\ wentries = Undecoded /\ fentries = Undecoded /\ wpc = "wrapped"

\* Ringbuffer.__init__ on the ring whose frames start anywhere
DecodeWrapped ==
  /\ wpc = "wrapped"
  /\ wentries' = RingEntries(wring)
  /\ wpc' = "flat"
  /\ UNCHANGED <<wring, fring, fentries>>
  /\ UNCHANGED NotWrap

\* Ringbuffer.__init__ on the ring whose frames start at 0
DecodeFlat ==
  /\ wpc = "flat"
  /\ fentries' = RingEntries(fring)
  /\ wpc' = "done"
  /\ UNCHANGED <<wring, fring, wentries>>
  /\ UNCHANGED NotWrap

NextWrap ==
  \/ DecodeWrapped
  \/ DecodeFlat

(***************************************************************************)
(* crc8 on spans with residue 0                                            *)
(***************************************************************************)
MaxSpan == 3       \* bytes of a span before its CRC byte

\* the bytes the spans are made of
SpanBytes == {0, 1, 85, Tilde, 255}

\* v with bit b flipped
FlipBit(v, b) == IF (v \div (2 ^ b)) % 2 = 1 THEN v - 2 ^ b ELSE v + 2 ^ b

CrcOff ==
  /\ span = <<>> /\ flipped = <<>> /\ residue = -1 /\ flipped_residue = -1
  /\ cpc = "off"

\* a span as the producer writes it: the bytes, then their CRC
InitCrc ==
  /\ \E m \in UNION { [1..n -> SpanBytes] : n \in 0..MaxSpan } :
       span = m \o <<crc8(m)>>
  /\ flipped = <<>> /\ residue = -1 /\ flipped_residue = -1
  /\ cpc = "span"

\* crc8(span)
Residue ==
  /\ cpc = "span"
  /\ residue' = crc8(span)
  /\ cpc' = "flip"
  /\ UNCHANGED <<span, flipped, flipped_residue>>
  /\ UNCHANGED NotCrc

\* bit b of byte i is flipped; crc8 of the result
Flip(i, b) ==
  /\ cpc = "flip"
  /\ \E damaged \in {[span EXCEPT ![i] = FlipBit(@, b)]} :
       /\ flipped' = damaged
       /\ flipped_residue' = crc8(damaged)
  /\ cpc' = "done"
  /\ UNCHANGED <<span, residue>>
  /\ UNCHANGED NotCrc

NextCrc ==
  \/ Residue
  \/ \E i \in 1..Len(span), b \in 0..7 : Flip(i, b)

(***************************************************************************)
(* Static entries with arguments                                           *)
(* A metadata record holds the descriptor of a tracepoint with arguments   *)
(* and the descriptor of a tracepoint without; the ring holds one entry of *)
(* each. The loop of Tracebuffer.__init__ resolves them in ring order.     *)
(***************************************************************************)
MaxArgs == 2    \* arguments of the modelled tracepoint

\* v.to_bytes(n, endian, signed=True): what the producer stores for an integer
to_bytes(v, n, endian) ==
  LET le == v.mag \o Zeros(n - Len(v.mag))
      b  == IF v.neg THEN NegateLE(le, 1) ELSE le
  IN IF endian = "big" THEN Reverse(b) ELSE b

Ones(n) == [i \in 1..n |-> 255]

\* the arguments a tracepoint may log: the tag, the value logged and, for a
\* string or a dump, the bytes behind the length prefix
ArgChoices ==
  LET I(tag, neg, mag) == [tag |-> tag, value |-> IntValue(neg, mag), raw |-> <<>>]
      S(tag, text, raw) == [tag |-> tag, value |-> StrValue(text), raw |-> raw]
  IN { I(99, FALSE, <<255>>),              \* uint8 255
       I(67, TRUE, <<128>>),               \* int8 -128
       I(87, TRUE, <<1>>),                 \* int16 -1
       I(105, FALSE, Ones(4)),             \* uint32 2^32 - 1
       I(73, TRUE, Zeros(3) \o <<128>>),   \* int32 -2^31
       I(108, FALSE, Ones(8)),             \* uint64 2^64 - 1
       I(113, FALSE, Ones(16)),            \* uint128 2^128 - 1
       I(81, TRUE, Zeros(15) \o <<128>>),  \* int128 -2^127
       I(112, FALSE, Ones(8)),             \* pointer
       S(115, <<65>>, <<65, 0>>),          \* "A" with its terminator
       S(115, <<>>, <<>>),                 \* an empty string
       S(120, <<48, 48, 32, 70, 70>>, <<0, 255>>) }   \* a dump of two bytes

\* the bytes of one argument in args_raw
EncodeArg(a, endian) ==
  IF a.value.t = "int"
  THEN to_bytes(a.value, SizeOf(arg_type_to_string(a.tag)), endian)
  ELSE IntBytes(Len(a.raw), 4, endian) \o a.raw

RECURSIVE EncodeArgs(_, _)
EncodeArgs(as, endian) ==
  IF as = <<>> THEN <<>>
  ELSE EncodeArg(Head(as), endian) \o EncodeArgs(Tail(as), endian)

\* the directive a tracepoint writes for an argument
DirectiveOf(a) ==
  LET t == arg_type_to_string(a.tag)
  IN IF t = "pointer" THEN <<37, 112>>
     ELSE IF t \in {"char*", "<dump>"} THEN <<37, 115>>
     ELSE IF IsSigned(t) /\ SizeOf(t) <= 8 THEN <<37, 100>>
     ELSE <<37, 120>>

RECURSIVE DirectivesOf(_)
DirectivesOf(as) ==
  IF as = <<>> THEN <<>>
  ELSE DirectiveOf(Head(as)) \o (IF Len(as) > 1 THEN <<32>> ELSE <<>>)
         \o DirectivesOf(Tail(as))

\* how the format string relates to the arguments: one directive per
\* argument, the same behind an escaped percent sign, one directive more, the
\* directive of the last argument missing, or the directives between the
\* texts L\n and \nR (a backslash and the letter n each)
Variants == {"fit", "escaped", "more", "fewer", "newline"}

FormatOf(as, variant) ==
  CASE variant = "fit"     -> DirectivesOf(as)
    [] variant = "escaped" -> <<Percent, Percent>> \o DirectivesOf(as)
    [] variant = "more"    -> DirectivesOf(as) \o <<32, 37, 100>>
    [] variant = "fewer"   -> DirectivesOf(PyTo(as, -1)) \o <<33>>
    [] variant = "newline" -> <<76, 92, 110>> \o DirectivesOf(as) \o <<92, 110, 82>>

\* the directives FormatOf writes
DirectiveCount(as, variant) ==
  CASE variant = "more"  -> Len(as) + 1
    [] variant = "fewer" -> Len(as) - 1
    [] OTHER             -> Len(as)

RECURSIVE ArgLists(_)
ArgLists(n) ==
  IF n = 0 THEN {<<>>}
  ELSE ArgLists(n - 1) \cup
       {Append(l, a) : l \in {l \in ArgLists(n - 1) : Len(l) = n - 1}, a \in ArgChoices}

\* where the metadata record lies in the file
Off_meta == 100

\* the descriptor without arguments: file "f", format "ok"
D_plain(endian) == Descriptor(1, 4, <<>>, <<102>> \o <<0>> \o <<111, 107>> \o <<0>>, endian)

\* the descriptor of the tracepoint with arguments: file "f", line 7
D_args(as, variant, endian) ==
  Descriptor(1, 7, [i \in 1..Len(as) |-> as[i].tag],
             <<102>> \o <<0>> \o FormatOf(as, variant) \o <<0>>, endian)

\* a file of two ring entries: the tracepoint with arguments, cut bytes
\* short, and then the tracepoint without arguments
StaticFile(as, variant, cut, endian) ==
  LET body == D_args(as, variant, endian) \o D_plain(endian)
      args_raw == PyTo(EncodeArgs(as, endian), Len(EncodeArgs(as, endian)) - cut)
      E(tag, args) == Ringbuffer_Entry(22 + Len(args),
                                       EntryBody(tag, 1, 1, 1, args, endian), 0, endian)
  IN [ raw |-> Zeros(Off_meta) \o body, endian |-> endian,
       stack |-> << [file_offset |-> Off_meta, body |-> body] >>,
       ring_entries |-> << E(Off_meta, args_raw),
                           E(Off_meta + Len(D_args(as, variant, endian)), <<>>) >>,
       logged |-> as, variant |-> variant, cut |-> cut ]

StaticOff == sfile = NoFile /\ spos = 0 /\ sentries = <<>> /\ sargs = <<>> /\ spc = "off"

InitStatic ==
  /\ \E as \in ArgLists(MaxArgs), variant \in Variants, cut \in 0..1,
        endian \in {"little", "big"} :
       /\ variant = "fewer" => as # <<>>
       /\ cut = 1 => as # <<>> /\ variant = "fit"
       /\ sfile = StaticFile(as, variant, cut, endian)
  /\ spos = 1 /\ sentries = <<>> /\ sargs = <<>> /\ spc = "resolve"

\* the arguments the StaticTraceentry of a ring entry holds
ArgsOf(t, entry) ==
  Only({ Only({ [ok |-> x.ok, args |-> x.args, at |-> x.at] :
                x \in { StaticArgs(entry, d, t.endian) } }) :
         d \in { StaticDescriptor(entry, get_blob(t.stack, entry.offset), t.endian) } })

\* one iteration of the loop over ringbuffer.entries: the entry is appended,
\* skipped, or its exception leaves Tracebuffer.__init__
ResolveStatic ==
  /\ spc = "resolve" /\ spos <= Len(sfile.ring_entries)
  /\ \E r \in {ResolveEntryIn(sfile, sfile.ring_entries[spos])} :
       IF r.kind = "raise"
       THEN spc' = "raised" /\ UNCHANGED <<spos, sentries, sargs>>
       ELSE IF r.kind = "skip"
       THEN spos' = spos + 1 /\ UNCHANGED <<spc, sentries, sargs>>
       ELSE /\ sentries' = Append(sentries, Event(spos, sfile.ring_entries[spos], r))
            /\ sargs' = Append(sargs, ArgsOf(sfile, sfile.ring_entries[spos]))
            /\ spos' = spos + 1
            /\ UNCHANGED spc
  /\ UNCHANGED sfile
  /\ UNCHANGED NotStatic

\* the loop is over
ResolveStaticDone ==
  /\ spc = "resolve" /\ spos > Len(sfile.ring_entries)
  /\ spc' = "done"
  /\ UNCHANGED <<sfile, spos, sentries, sargs>>
  /\ UNCHANGED NotStatic

NextStatic ==
  \/ ResolveStatic
  \/ ResolveStaticDone

(***************************************************************************)
(* Functions of the decoder applied to one input                           *)
(***************************************************************************)
MaxBytes == 3

\* bytes handed to decode: NUL, control characters, a letter, DEL, continuation
\* bytes, lead bytes of two- and three-byte sequences, a byte no sequence holds
DecodeBytes == {0, 9, 10, 13, 27, 65, 127, 128, 139, 169, 194, 195, 226, 255}

InitDecode ==
  /\ arg \in UNION { [1..n -> DecodeBytes] : n \in 0..MaxBytes }
  /\ val = <<>> /\ apc = "decode"

\* decode(b)
Decode ==
  /\ apc = "decode"
  /\ val' = decode(arg)
  /\ apc' = "done"
  /\ UNCHANGED arg
  /\ UNCHANGED NotApply

NextDecode == Decode

\* ---- the numeric readers ---------------------------------------------------
MaxOffset == 1

\* the bytes at both ends of a number; the exponent 2^k - 1 (infinities and
\* NaN) cannot be built from them
NumBytes == {0, 63, 128, 240}

\* the widths get_arg reads integers in
IntSizes == {1, 2, 4, 8, 16}

\* a number of size bytes: bytes of NumBytes at its ends, zeros between them
NumRaws(size) ==
  IF size = 1 THEN { <<a>> : a \in NumBytes }
  ELSE IF size = 2 THEN { <<a, b>> : a, b \in NumBytes }
  ELSE { <<a, b>> \o Zeros(size - 4) \o <<c, d>> : a, b, c, d \in NumBytes }

\* the value of four bytes as IEEE 754 binary32, the bytes taken in the given
\* order: sign, biased exponent and the bytes of the fraction, most
\* significant first
unpack_f(b, order) ==
  LET m == IF order = "little" THEN Reverse(b) ELSE b
  IN [t |-> "float", sign |-> m[1] \div 128,
      exponent |-> (m[1] % 128) * 2 + m[2] \div 128,
      fraction |-> <<m[2] % 128, m[3], m[4]>>]

\* the value of eight bytes as IEEE 754 binary64
unpack_d(b, order) ==
  LET m == IF order = "little" THEN Reverse(b) ELSE b
  IN [t |-> "float", sign |-> m[1] \div 128,
      exponent |-> (m[1] % 128) * 16 + m[2] \div 16,
      fraction |-> <<m[2] % 16>> \o SubSeq(m, 3, 8)]

\* get_float(raw, offset): struct.unpack('f', ...) has no byte order character,
\* so the bytes are taken in the native order of the host
get_float(raw, off, host) ==
  Only({ [ok |-> g.ok, val |-> IF g.ok THEN unpack_f(g.val, host) ELSE <<>>] :
         g \in { get(raw, off, 4) } })

\* get_double(raw, offset): struct.unpack('d', ...), native order as well
get_double(raw, off, host) ==
  Only({ [ok |-> g.ok, val |-> IF g.ok THEN unpack_d(g.val, host) ELSE <<>>] :
         g \in { get(raw, off, 8) } })

\* a read of one number: the span, the offset of the number in it, the byte
\* order the magic of the file declared (current_Endian), the byte order of
\* the host the decoder runs on
InitNum ==
  /\ \E kind \in {"int", "float", "double"}, at \in 0..MaxOffset,
        endian \in {"little", "big"}, host \in {"little", "big"},
        signed \in BOOLEAN, size \in IntSizes :
       /\ kind = "float" => size = 4 /\ ~signed
       /\ kind = "double" => size = 8 /\ ~signed
       /\ \E number \in NumRaws(size) :
            arg = [kind |-> kind, raw |-> [i \in 1..at |-> 255] \o number,
                   offset |-> at, size |-> size, signed |-> signed,
                   endian |-> endian, host |-> host]
  /\ val = <<>> /\ apc = "num"

\* get_int(raw, offset, size, signed)
ReadInt ==
  /\ apc = "num" /\ arg.kind = "int"
  /\ val' = get_int_arg(arg.raw, arg.offset, arg.size, arg.signed, arg.endian)
  /\ apc' = "done"
  /\ UNCHANGED arg
  /\ UNCHANGED NotApply

\* get_float(raw, offset)
ReadFloat ==
  /\ apc = "num" /\ arg.kind = "float"
  /\ val' = get_float(arg.raw, arg.offset, arg.host)
  /\ apc' = "done"
  /\ UNCHANGED arg
  /\ UNCHANGED NotApply

\* get_double(raw, offset)
ReadDouble ==
  /\ apc = "num" /\ arg.kind = "double"
  /\ val' = get_double(arg.raw, arg.offset, arg.host)
  /\ apc' = "done"
  /\ UNCHANGED arg
  /\ UNCHANGED NotApply

NextNum == ReadInt \/ ReadFloat \/ ReadDouble

\* ---- the translation of format strings -------------------------------------
MaxDigits == 1

\* the digit strings of a width or a precision
DigitStrings == UNION { [1..n -> {48, 53}] : n \in 0..MaxDigits }

\* a format string: text, one directive built from its parts, text
InitFormat ==
  /\ \E before \in {<<>>, <<97>>, <<Percent, Percent>>},
        flags \in {<<>>, <<45>>, <<48>>, <<43>>},
        width \in DigitStrings,
        precision \in {<<>>} \cup { <<46>> \o q : q \in DigitStrings },
        length \in {<<>>, <<104>>, <<108>>, <<108, 108>>},
        conversion \in {100, 120, 115, 112},
        after \in {<<>>, <<92, 110>>, <<32, Percent, 115>>} :
       arg = before \o <<Percent>> \o flags \o width \o precision \o length
               \o <<conversion>> \o after
  /\ val = <<>> /\ apc = "format"

\* clean_up_format(format)
Translate ==
  /\ apc = "format"
  /\ val' = clean_up_format(arg)
  /\ apc' = "done"
  /\ UNCHANGED arg
  /\ UNCHANGED NotApply

NextFormat == Translate

\* ---- the ring header of a file of a given version -------------------------
MaxMinor == 3      \* largest minor version number of a modelled file

\* what a producer of the given version writes as ring region: version word,
\* mutex of width bytes (its last byte is not 0 while it is held), six fields,
\* 40 reserved bytes, the body
VersionedRing(width, locked, f, body, endian) ==
  IntBytes(1, 8, endian) \o Zeros(width - 1) \o <<IF locked THEN 1 ELSE 0>>
    \o IntBytes(Len(body), 8, endian) \o IntBytes(f.wrapped, 8, endian)
    \o IntBytes(f.dropped, 8, endian) \o IntBytes(f.entries_count, 8, endian)
    \o IntBytes(f.next_free, 8, endian) \o IntBytes(f.last_valid, 8, endian)
    \o Zeros(40) \o body

\* a file of version major.minor.patch: the header, then the ring region laid
\* out with the mutex width of that version
InitVersion ==
  /\ \E major \in {1, 2}, minor \in 0..MaxMinor, patch \in {0, 9},
        endian \in {"little", "big"}, locked \in BOOLEAN, last \in {0, 2} :
       LET f == [wrapped |-> 11, dropped |-> 12, entries_count |-> 13,
                 next_free |-> 3, last_valid |-> last]
           body == <<21, 22, 23, 24, 25>>
           width == IF minor <= 1 THEN 32 ELSE 64
       IN arg = [major |-> major, minor |-> minor, patch |-> patch,
                 endian |-> endian, locked |-> locked, fields |-> f, body |-> body,
                 raw |-> HeaderBytes(IF endian = "big" THEN MagicBig ELSE MagicLittle,
                                     major * 65536 + minor * 256 + patch,
                                     0, 56, 0, 0, endian)
                           \o VersionedRing(width, locked, f, body, endian)]
  /\ val = <<>> /\ apc = "version"

\* Tracebuffer.__init__ up to the version check, then the header fields of
\* Ringbuffer.__init__
ReadRingHeader ==
  /\ apc = "version"
  /\ \E h \in {FileHeader(arg.raw)} :
       val' = IF h.ok
              THEN RingHeader(h.ringbuffer_offset, h.raw, h.endian, h.version, FALSE)
              ELSE Rejected
  /\ apc' = "done"
  /\ UNCHANGED arg
  /\ UNCHANGED NotApply

NextVersion == ReadRingHeader

(***************************************************************************)
(* Specifications                                                          *)
(***************************************************************************)
ApplyOff == arg = <<>> /\ val = <<>> /\ apc = "off"

WorkerOff ==
  /\ current_Endian = "none" /\ current_version = <<0, 0>>
  /\ wqueue = <<>> /\ wraw = <<>> /\ wresults = <<>> /\ wkpc = "off"

LiveOff ==
  /\ phase = "Off" /\ tickStep = "wait" /\ now = 0 /\ cancel = FALSE
  /\ capacity = 0 /\ orderDelay = 0
  /\ exists = [s \in Sources |-> FALSE]
  /\ log = [s \in Sources |-> <<>>]
  /\ cursor = [s \in Sources |-> 0]
  /\ scanned = {}
  /\ newest = [s \in Sources |-> -1]
  /\ fresh = {} /\ pending = {} /\ out = <<>> /\ evicted = {}
  /\ read = 0 /\ output = 0 /\ dropped = 0 /\ hwm = 0 /\ peak = 0
  /\ atDrain = {}

InitLiveSession ==
  InitLive /\ RingOff /\ TbOff /\ BatchOff /\ WrapOff /\ CrcOff /\ StaticOff /\ ApplyOff /\ WorkerOff

InitRingWalk ==
  InitRing /\ LiveOff /\ TbOff /\ BatchOff /\ WrapOff /\ CrcOff /\ StaticOff /\ ApplyOff /\ WorkerOff

InitResolve ==
  InitTb /\ LiveOff /\ RingOff /\ BatchOff /\ WrapOff /\ CrcOff /\ StaticOff /\ ApplyOff /\ WorkerOff

InitBatchRun ==
  InitBatch /\ LiveOff /\ RingOff /\ TbOff /\ WrapOff /\ CrcOff /\ StaticOff /\ ApplyOff /\ WorkerOff

InitWrapped ==
  InitWrap /\ LiveOff /\ RingOff /\ TbOff /\ BatchOff /\ CrcOff /\ StaticOff /\ ApplyOff /\ WorkerOff

InitSpan ==
  InitCrc /\ LiveOff /\ RingOff /\ TbOff /\ BatchOff /\ WrapOff /\ StaticOff /\ ApplyOff /\ WorkerOff

InitStaticRun ==
  InitStatic /\ LiveOff /\ RingOff /\ TbOff /\ BatchOff /\ WrapOff /\ CrcOff /\ ApplyOff /\ WorkerOff

SpecLive == InitLiveSession /\ [][NextLive]_vars

\* a session in which no cancellation is signalled
NextLivePolling ==
  \/ \E s \in Sources, ts \in 0..MaxTime : Write(s, ts)
  \/ \E s \in Sources : Create(s)
  \/ Start
  \/ BeginTick
  \/ \E s \in Sources : Scan(s)
  \/ Merge

\* the engine's loop keeps running: timer, scans and merge are scheduled; the
\* producers are not
SpecLivePolling ==
  /\ InitLiveSession /\ [][NextLivePolling]_vars
  /\ WF_vars(Start) /\ WF_vars(BeginTick)
  /\ WF_vars(\E s \in Sources : Scan(s)) /\ WF_vars(Merge)

\* a session without cancellation in which the file of a source that was
\* missing at the start is created while the engine is polling
NextLiveLate ==
  \/ \E s \in Sources, ts \in 0..MaxTime : Write(s, ts)
  \/ \E s \in Sources : phase = "Polling" /\ Create(s)
  \/ Start
  \/ BeginTick
  \/ \E s \in Sources : Scan(s)
  \/ Merge

SpecLiveLate ==
  /\ InitLiveSession /\ [][NextLiveLate]_vars
  /\ WF_vars(Start) /\ WF_vars(BeginTick)
  /\ WF_vars(\E s \in Sources : Scan(s)) /\ WF_vars(Merge)

InitDecodeRun ==
  InitDecode /\ LiveOff /\ RingOff /\ TbOff /\ BatchOff /\ WrapOff /\ CrcOff /\ StaticOff
    /\ WorkerOff

\* a session whose producers write before the engine starts and after it
\* stopped; once the signal is sent the loop observes it, flushes and stops:
\* the steps of the shutdown are scheduled
NextLiveStop ==
  \/ \E s \in Sources, ts \in 0..MaxTime : phase = "Idle" /\ Write(s, ts)
  \/ \E s \in Sources : phase = "Idle" /\ Create(s)
  \/ Start \/ BeginTick \/ \E s \in Sources : Scan(s) \/ Merge
  \/ Cancel \/ BeginDrain \/ DrainStep \/ Stop
  \/ \E s \in Sources, ts \in 0..MaxTime : WriteAfterStop(s, ts)

SpecLiveStop ==
  /\ InitLiveSession /\ [][NextLiveStop]_vars
  /\ WF_vars(BeginDrain) /\ WF_vars(DrainStep) /\ WF_vars(Stop)

SpecDecode == InitDecodeRun /\ [][NextDecode]_vars

InitNumRun ==
  InitNum /\ LiveOff /\ RingOff /\ TbOff /\ BatchOff /\ WrapOff /\ CrcOff /\ StaticOff
    /\ WorkerOff

SpecNum == InitNumRun /\ [][NextNum]_vars

InitFormatRun ==
  InitFormat /\ LiveOff /\ RingOff /\ TbOff /\ BatchOff /\ WrapOff /\ CrcOff /\ StaticOff
    /\ WorkerOff

SpecFormat == InitFormatRun /\ [][NextFormat]_vars

InitVersionRun ==
  InitVersion /\ LiveOff /\ RingOff /\ TbOff /\ BatchOff /\ WrapOff /\ CrcOff /\ StaticOff
    /\ WorkerOff

SpecVersion == InitVersionRun /\ [][NextVersion]_vars

InitWorkerRun ==
  InitWorker /\ LiveOff /\ RingOff /\ TbOff /\ BatchOff /\ WrapOff /\ CrcOff /\ StaticOff
    /\ ApplyOff

SpecWorker == InitWorkerRun /\ [][NextWorker]_vars

SpecRing == InitRingWalk /\ [][NextRing]_vars

InitStaleWalk ==
  InitStale /\ LiveOff /\ TbOff /\ BatchOff /\ WrapOff /\ CrcOff /\ StaticOff /\ ApplyOff /\ WorkerOff

SpecStale == InitStaleWalk /\ [][NextRing]_vars

SpecTb == InitResolve /\ [][NextTb]_vars

SpecBatch == InitBatchRun /\ [][NextBatch]_vars

SpecWrap == InitWrapped /\ [][NextWrap]_vars

SpecCrc == InitSpan /\ [][NextCrc]_vars

SpecStatic == InitStaticRun /\ [][NextStatic]_vars

(***************************************************************************)
(* Properties of the Live Merge Engine                                     *)
(***************************************************************************)
Id(e) == <<e.src, e.idx>>
ReadIds == UNION {{<<s, i>> : i \in 1..cursor[s]} : s \in Sources}
OutIdx == 1..Len(out)
AllRead == {Core(e) : e \in fresh} \cup {Core(e) : e \in pending}
           \cup {Core(e) : e \in Range(out)} \cup evicted
NonDecreasing == \A i, j \in OutIdx : i < j => out[i].ts <= out[j].ts
MonotoneSources ==
  \A s \in Sources : \A i, j \in 1..Len(log[s]) : i < j => log[s][i] <= log[s][j]
\* every event was read before any event with a larger timestamp was emitted
NoLateArrival ==
  \A i \in OutIdx : \A e \in AllRead : e.ts < out[i].ts => e.arr <= out[i].seenAt

\* C1: once Draining has completed, read == output + dropped, and every event
\* counted in read was emitted exactly once or evicted exactly once, never both
\* and never neither.
C1_DropAccounting ==
  phase = "Stopped" =>
    /\ read = output + dropped
    /\ read = Cardinality(ReadIds)
    /\ output = Len(out) /\ dropped = Cardinality(evicted)
    /\ \A id \in ReadIds :
         Cardinality({i \in OutIdx : Id(out[i]) = id})
           + Cardinality({e \in evicted : Id(e) = id}) = 1
C1_Witness == phase = "Stopped" /\ output >= 1 /\ dropped >= 1

C9_UnlimitedNeverDrops == capacity = 0 => (dropped = 0 /\ evicted = {})
C9_Witness == capacity = 0 /\ Cardinality(pending) >= 2 /\ read >= 2

\* C10: with capacity C > 0 the pending set and high_water_mark never exceed C;
\* high_water_mark equals the largest pending-set size observed so far and never
\* decreases.
C10_HighWater ==
  /\ [](capacity > 0 => (hwm <= capacity /\ Cardinality(pending) <= capacity))
  /\ [](hwm = peak)
  /\ [][hwm' >= hwm]_vars
C10_Witness == capacity > 0 /\ dropped >= 1 /\ hwm = capacity /\ output >= 1

\* the i-th entry of source s has been read / has been emitted or dropped
WasRead(s, i) == cursor[s] >= i
Settled(s, i) ==
  \/ \E k \in OutIdx : out[k].src = s /\ out[k].idx = i
  \/ \E e \in evicted : e.src = s /\ e.idx = i

\* C11: while the engine keeps polling and no cancellation is signalled, every
\* event that was read (with a timestamp the clock can pass) is eventually
\* emitted or dropped, even if no source ever writes again: again and again
\* the session is in a state where all that was read is emitted or dropped.
C11_PushEmission ==
  []<>(cancel \/ \A s \in Sources, i \in 1..MaxEvents :
                   (WasRead(s, i) /\ log[s][i] + orderDelay < MaxTime) => Settled(s, i))
C11_Witness ==
  /\ phase = "Polling" /\ ~cancel /\ read = MaxEvents /\ output = MaxEvents
  /\ \E k \in OutIdx : out[k].ts + orderDelay + 1 = now

\* how often the i-th entry of source s is held by the engine or its output
Copies(s, i) ==
  Cardinality({e \in fresh : e.src = s /\ e.idx = i})
  + Cardinality({e \in pending : e.src = s /\ e.idx = i})
  + Cardinality({k \in OutIdx : out[k].src = s /\ out[k].idx = i})
  + Cardinality({e \in evicted : e.src = s /\ e.idx = i})

ReadOnce ==
  /\ read = cursor[1] + cursor[2]
  /\ \A s \in Sources :
       /\ cursor[s] <= Len(log[s])
       /\ \A i \in 1..Len(log[s]) : Copies(s, i) = (IF i <= cursor[s] THEN 1 ELSE 0)

C21_LateSourceRead ==
  []<>(\A s \in Sources : \A i \in 1..Len(log[s]) :
         WasRead(s, i) /\ (log[s][i] + orderDelay < MaxTime => Settled(s, i)))
\* entries of the source that existed were read and emitted before the first
\* entry of the late source was read
C21_Witness ==
  /\ phase = "Polling" /\ exists[2] /\ cursor[2] = Len(log[2])
  /\ \E j, k \in OutIdx :
       out[j].src = 1 /\ out[k].src = 2 /\ out[j].seenAt < out[k].arr

\* the events the pending set holds once what was read in the tick is inserted
InsertedCores == {Core(e) : e \in pending} \cup {Core(e) : e \in fresh}

\* the step inserts what was read and the pending set then exceeds a capacity
\* C > 0
OverflowingInsertion ==
  /\ capacity > 0 /\ fresh # {} /\ fresh' = {}
  /\ Cardinality(InsertedCores) > capacity

\* C27: when an insertion makes the pending set exceed the capacity C > 0,
\* exactly the excess events are removed and they are those with the smallest
\* timestamps; dropped grows by one for each of them, so dropped > 0 once more
\* than C events were pending at once; an evicted event is never emitted.
C27_OverflowEvictsOldest ==
  /\ [][OverflowingInsertion =>
         LET ev   == evicted' \ evicted
             rest == InsertedCores \ ev
         IN /\ ev \subseteq InsertedCores
            /\ Cardinality(ev) = Cardinality(InsertedCores) - capacity
            /\ \A e \in ev, k \in rest : e.ts <= k.ts
            /\ dropped' = dropped + Cardinality(ev)
            /\ dropped' > 0]_vars
  /\ [](\A i \in OutIdx : Core(out[i]) \notin evicted)
\* with capacity 1 two events were read, the older one was evicted, the newer
\* one was kept and emitted later
C27_Witness ==
  /\ capacity = 1 /\ read = 2 /\ dropped = 1 /\ Len(out) = 1
  /\ \A e \in evicted : e.ts < out[1].ts

\* the sources an event emitted by this step was still waiting for: those not
\* polled since it was inserted, all of them if it is inserted by this step
WaitingBefore(o) ==
  IF \E p \in pending : Core(p) = Core(o)
  THEN (CHOOSE p \in pending : Core(p) = Core(o)).waiting
  ELSE Sources

\* C28: outside Draining no event is emitted unless its timestamp is older
\* than now - order_delay and every source has produced a newer event or has
\* been polled since the event was inserted.
C28_EmitsOnlyEligible ==
  [][phase # "Draining" =>
       \A i \in (Len(out) + 1)..Len(out') :
         /\ out'[i].ts + orderDelay < now
         /\ \A s \in WaitingBefore(out'[i]) : newest[s] > out'[i].ts]_vars
\* after a merge that emitted an event, an event old enough stays pending: a
\* source it waits for has produced nothing newer
C28_Witness ==
  /\ phase = "Polling" /\ tickStep = "wait" /\ ~cancel /\ Len(out) >= 1
  /\ out[Len(out)].seenAt = read
  /\ \E e \in pending :
       /\ e.ts + orderDelay < now
       /\ \E s \in e.waiting : newest[s] <= e.ts

\* C29: the state of the engine moves only from Idle to Polling, from Polling
\* to Draining and from Draining to Stopped; once the cancellation is signalled
\* in Polling the engine gets to Draining and then to Stopped; it is Stopped
\* only with an empty pending set; after Stopped nothing is read, emitted or
\* dropped, whatever the producers still write.
C29_Lifecycle ==
  /\ [][phase' # phase =>
         <<phase, phase'>> \in {<<"Idle", "Polling">>, <<"Polling", "Draining">>,
                                <<"Draining", "Stopped">>}]_vars
  /\ []<>(~cancel \/ phase = "Stopped")
  /\ [](phase = "Stopped" => (pending = {} /\ fresh = {}))
  /\ [][phase = "Stopped" =>
         /\ phase' = "Stopped"
         /\ read' = read /\ cursor' = cursor
         /\ out' = out /\ output' = output
         /\ evicted' = evicted /\ dropped' = dropped]_vars
\* the engine stopped after flushing what was pending; an entry written since
\* has not been read
C29_Witness ==
  /\ phase = "Stopped" /\ cancel /\ atDrain # {} /\ output = Cardinality(atDrain)
  /\ scanned = Sources
  /\ \E s \in Sources : exists[s] /\ cursor[s] > 0 /\ Len(log[s]) > cursor[s]
       /\ log[s][Len(log[s])] = now

\* e goes before f: by timestamp, among equal timestamps by source, then by
\* arrival
GoesBefore(e, f) ==
  \/ e.ts < f.ts
  \/ e.ts = f.ts /\ (e.src < f.src \/ (e.src = f.src /\ e.arr < f.arr))

RingTotal == Len(Concat(rb.frames))
InRangeHeader == rb.last_valid < rb.body_size /\ rb.next_free < rb.body_size

\* C3: a well-formed ring with a non-zero entry count holding N valid frames
\* contiguously from last_valid to next_free (possibly wrapping) is read, in
\* normal mode, as exactly N entries in write order, the cursor ending at
\* next_free.
C3_RoundTrip ==
  (rb.well_formed /\ ~rb.recover_all) =>
    /\ rpc # "raised"
    /\ rpc = "done" =>
         /\ Len(entries) = Len(rb.frames)
         /\ \A i \in 1..Len(entries) :
              FrameBytes(entries[i].body, rb.endian) = rb.frames[i].bytes
         /\ last_valid = rb.next_free
C3_Witness ==
  /\ rb.well_formed /\ ~rb.recover_all /\ rpc = "done" /\ Len(entries) = 2
  /\ rb.last_valid + RingTotal > rb.body_size

\* C7: a cursor position that fails frame validation advances the cursor by
\* exactly one byte modulo body_size, and no body content makes the walk raise.
C7_NoBodyContentRaises ==
  InRangeHeader =>
    /\ rpc # "raised"
    /\ last_valid < rb.body_size

\* C8: no start position is processed twice, so the number of loop iterations
\* is bounded by the number of positions in the body, for every last_valid and
\* next_free, in normal and recover-all mode.
C8_IterationsBounded ==
  rpc # "off" =>
    /\ Cardinality(start_positions) <= rb.body_size
    /\ \A p, q \in start_positions :
         p # q => (p % rb.body_size) # (q % rb.body_size)

\* C31 (as claimed): if the entry count of the ring header is 0 the body is
\* not walked and the reader returns zero entries, whatever the body bytes,
\* last_valid and next_free, in normal and in recover-all mode.
C31_EmptyCountNoEntries ==
  (rb.entries_count = 0 /\ rpc \notin {"off", "load"}) =>
    /\ rpc = "done" /\ entries = <<>> /\ start_positions = {}
\* C31 (amended): if the entry count of the ring header is 0 the body is not
\* walked, in normal and in recover-all mode, whatever the body bytes; the
\* reader returns zero entries when last_valid <= next_free + body_size, and
\* fails on its assertion 0 <= used otherwise.
C31_EmptyCountNoWalk ==
  (rb.entries_count = 0 /\ rpc \notin {"off", "load"}) =>
    /\ entries = <<>> /\ start_positions = {} /\ warnings = 0
    /\ rpc = (IF rb.last_valid <= rb.next_free + rb.body_size THEN "done" ELSE "raised")
\* a ring with entry count 0 that holds two proper frames between last_valid
\* and next_free was read in recover-all mode with zero entries
C31_Witness ==
  /\ rb.entries_count = 0 /\ rpc = "done" /\ rb.recover_all /\ entries = <<>>
  /\ Len(rb.frames) = 2 /\ \A i \in 1..2 : rb.frames[i].proper
  /\ rb.last_valid # rb.next_free /\ rb.last_valid < rb.body_size

\* what the walk of ring r from cursor lv finds at the positions it processes,
\* in the order it processes them: "miss" or "frame"
RECURSIVE WalkKinds(_, _, _)
WalkKinds(r, lv, seen) ==
  IF ~(lv # r.next_free \/ r.recover_all) \/ lv \in seen THEN <<>>
  ELSE LET w == WalkAtIn(r, lv)
       IN IF w.kind = "raise" THEN <<>>
          ELSE <<w.kind>> \o WalkKinds(r, IF w.kind = "miss" THEN offset(lv, 1, r.body_size)
                                                           ELSE w.next,
                                       seen \cup {lv})

\* the positions of kinds at which a maximal run of misses begins
RunStarts(kinds) ==
  { i \in 1..Len(kinds) : kinds[i] = "miss" /\ (i = 1 \/ kinds[i - 1] = "frame") }

\* the kinds of the positions the walk has processed so far
KindsSoFar ==
  LET all == WalkKinds(rb, rb.last_valid, {})
  IN SubSeq(all, 1, Min(Len(all), Cardinality(start_positions)))

\* C34: during one ring walk at most one missing-entry warning is logged per
\* maximal run of consecutive invalid cursor positions, and when the mutex
\* region is locked none is logged for the run that precedes the first valid
\* frame.
C34_OneWarningPerRun ==
  /\ (rpc = "walk" /\ ringbuffer_valid /\ warnings > 0) => Len(entries) > 0
  /\ (rpc = "walk" /\ rb.mutex_locked /\ entries = <<>>) => warnings = 0
  /\ rpc \in {"done", "raised"} =>
       LET runs == RunStarts(KindsSoFar)
       IN /\ warnings <= Cardinality(runs)
          /\ rb.mutex_locked => warnings <= Cardinality(runs \ {1})
\* a walk over a ring without locked mutex that went through a run of three
\* invalid positions, a frame, and a second run of invalid positions: two
\* warnings
C34_Witness ==
  /\ rpc = "done" /\ ~rb.mutex_locked /\ warnings = 2 /\ Len(entries) >= 1
  /\ Cardinality(start_positions) > 5
  /\ Cardinality(RunStarts(KindsSoFar)) = 2
\* a walk over a ring with locked mutex that began with an invalid position and
\* then found a frame: no warning
C34_WitnessLocked ==
  /\ rpc = "done" /\ rb.mutex_locked /\ warnings = 0 /\ Len(entries) >= 1
  /\ 1 \in RunStarts(KindsSoFar)
  /\ Cardinality(start_positions) >= 2

\* the position in the body that the entry was read from
PositionOf(entry) == (entry.location_in_file - RingBodyFileOff(rb)) % rb.body_size

\* C39: after every step of the ring walk the cursor is an offset in
\* [0, body_size), for every accepted frame size and every starting cursor;
\* hence no position of the body is processed under two different cursor
\* values and no frame is returned twice by one walk.
C39_CursorInBody ==
  rpc \in {"walk", "done", "raised"} =>
    /\ last_valid \in 0..(rb.body_size - 1)
    /\ start_positions \subseteq 0..(rb.body_size - 1)
    /\ \A i, j \in 1..Len(entries) :
         i # j => PositionOf(entries[i]) # PositionOf(entries[j])

\* C40: in normal mode, if last_valid equals next_free when the walk starts,
\* the reader returns zero entries whatever the entry count of the header and
\* the content of the body; only recover-all mode walks such a ring.
C40_FullRingReadsEmpty ==
  (rb.last_valid = rb.next_free /\ rpc \notin {"off", "load"}) =>
    /\ ~rb.recover_all =>
         /\ rpc # "raised" /\ entries = <<>> /\ start_positions = {} /\ warnings = 0
         /\ rpc = "done" => missing = MissingCount(<<>>)
    /\ start_positions # {} => rb.recover_all
\* a ring holding two proper frames from last_valid on, with next_free equal
\* to last_valid and an entry count of 3, was read in normal mode with zero
\* entries
C40_Witness ==
  /\ rpc = "done" /\ ~rb.recover_all /\ rb.last_valid = rb.next_free
  /\ Len(rb.frames) = 2 /\ \A i \in 1..2 : rb.frames[i].proper
  /\ rb.entries_count = 3 /\ entries = <<>> /\ missing >= 2
\* the same ring was walked in recover-all mode and gave its two entries
C40_WitnessRecover ==
  /\ rpc = "done" /\ rb.recover_all /\ rb.last_valid = rb.next_free
  /\ Len(rb.frames) = 2 /\ Len(entries) = 2

\* the cursor of a walk that began inside the body stays inside it
CursorStaysInBody ==
  (InRangeHeader /\ rpc \in {"walk", "done", "raised"}) =>
    /\ last_valid \in 0..(rb.body_size - 1)
    /\ \A i, j \in 1..Len(entries) :
         i # j => PositionOf(entries[i]) # PositionOf(entries[j])

\* the ring that differs from rb in the state of the mutex only
OtherMutex == [rb EXCEPT !.mutex_locked = ~rb.mutex_locked]

\* C35: two files that differ only in the bytes of the mutex region of the
\* ring decode to the same list of ring entries (same positions, same order,
\* same payloads), and the reader fails on one exactly if it fails on the
\* other; the mutex influences only the warnings and the missing-entries
\* estimate.
C35_MutexDoesNotChangeEntries ==
  /\ rpc = "done" =>
       LET other == RingEntries(OtherMutex)
       IN /\ other.ok
          /\ other.entries = entries
          /\ \A i \in 1..Len(entries) :
               /\ other.entries[i].location_in_file = entries[i].location_in_file
               /\ other.entries[i].body = entries[i].body
  /\ rpc = "raised" => ~RingEntries(OtherMutex).ok
\* a ring with a held mutex was read with one entry, no warning although the
\* walk began on an invalid position, and a missing-entries estimate of 1,
\* where the free ring has a warning and an estimate of 2
C35_Witness ==
  /\ rpc = "done" /\ rb.mutex_locked /\ Len(entries) = 1 /\ warnings = 0
  /\ KindsSoFar[1] = "miss"
  /\ missing = 1 /\ rb.entries_count = 3

(***************************************************************************)
(* Properties of the Entry Resolver                                        *)
(***************************************************************************)
\* C6: in a file whose header and regions are valid,
\* resolving one ring entry never aborts the others: whatever the other
\* entries' offset tags point to, the file is not reported failed and every
\* well-formed entry of the file is emitted.
C6_BadEntryIsolated ==
  tb.damage \in {"none", "swapped"} =>
  /\ tpc # "raised"
  /\ tpc = "done" =>
       \A i \in 1..Len(tb.ring_entries) :
         tb.good[i] => \E j \in 1..Len(tb_entries) : tb_entries[j].index = i

\* C13: a metadata record whose stored MD5 does not match its size field and
\* body does not make the decode of its file raise: the file is decoded to the
\* end, every ring entry is emitted, and the entries that reference another
\* record are rendered as in the intact file.
C13_Md5MismatchFallback ==
  tb.damage = "md5" =>
  /\ tpc # "raised"
  /\ tpc = "done" =>
       /\ Len(tb_entries) = Len(tb.record)
       /\ \A j \in 1..Len(tb_entries) :
            tb.record[tb_entries[j].index] = 1 =>
              tb_entries[j].formatted = decode(<<120, 92, 110>>)

\* the file as the header checks see it: pairs swapped back if it starts with
\* the pair-swapped magic
Normalised(raw) ==
  IF Len(raw) >= 16 /\ SubSeq(raw, 1, 16) = MagicSwapped THEN swap_odd_bytes(raw) ELSE raw

\* the four conditions on the header bytes, read at their positions
HeaderValid(raw) ==
  /\ Len(raw) >= 56
  /\ SubSeq(raw, 1, 16) \in {MagicLittle, MagicBig}
  /\ crc8(SubSeq(raw, 1, 56)) = 0
  /\ LET little == SubSeq(raw, 1, 16) = MagicLittle
         major  == IF little THEN raw[19] ELSE raw[22]
         minor  == IF little THEN raw[18] ELSE raw[23]
     IN major = 1 /\ minor <= 2

\* C18: the header parser lets a file through only if, after the pair-swap
\* normalisation, its first 16 bytes are a known magic, the CRC8 of bytes
\* [0,56) is 0, major is 1 and minor is at most 2; a file failing one of these
\* checks is rejected: its ring and its metadata stack are not parsed and no
\* entry of it is emitted.
C18_HeaderGate ==
  /\ tb.endian # "none" => HeaderValid(tb.raw)
  /\ (tpc \notin {"off", "header"} /\ ~HeaderValid(Normalised(tb.raw))) =>
       /\ tpc = "raised" /\ tb.endian = "none"
       /\ tb.ring_entries = <<>> /\ tb.stack = <<>> /\ tb_entries = <<>>

\* a file of minor version 3, otherwise valid, has been rejected
C18_Witness ==
  /\ tb.damage = "minor" /\ tpc = "raised"
  /\ SubSeq(tb.raw, 1, 16) = MagicLittle /\ crc8(SubSeq(tb.raw, 1, 56)) = 0
  /\ tb.raw[19] = 1 /\ tb.raw[18] = 3

\* the format string a dynamic entry carries inline: the bytes behind the file
\* name, its NUL and the 8 bytes of the line, without the closing NUL
InlineFormat(entry) ==
  LET a == entry.args_raw
      z == CHOOSE k \in 1..Len(a) : a[k] = 0 /\ \A h \in 1..(k - 1) : a[h] # 0
  IN SubSeq(a, z + 9, Len(a) - 1)

\* the events made of the i-th ring entry
TbEventsOf(i) == {j \in 1..Len(tb_entries) : tb_entries[j].index = i}

\* C32: every ring entry the loop has gone through falls in exactly one case
\* by its offset tag: 0, and no event is made of it; 1, and exactly one
\* dynamic event is made of it whose message is the inline format string as it
\* stands, nothing substituted; greater than 1, and it is resolved as a static
\* entry through the metadata stack; the events of the file are in the ring
\* order of their entries.
C32_TagCases ==
  tpc \in {"resolve", "done", "raised"} =>
    /\ \A j \in 1..Len(tb_entries) : tb_entries[j].index \in 1..(tpos - 1)
    /\ \A j, k \in 1..Len(tb_entries) :
         j < k => tb_entries[j].index < tb_entries[k].index
    /\ \A i \in 1..(tpos - 1) :
         LET e == tb.ring_entries[i]
         IN /\ e.offset = 0 => TbEventsOf(i) = {}
            /\ e.offset = 1 =>
                 /\ Cardinality(TbEventsOf(i)) = 1
                 /\ \A j \in TbEventsOf(i) :
                      /\ tb_entries[j].type = "dynamic"
                      /\ tb_entries[j].formatted = decode(InlineFormat(e))
            /\ e.offset > 1 =>
                 \A j \in TbEventsOf(i) :
                   /\ tb_entries[j].type = "static"
                   /\ get_blob(tb.stack, e.offset) # None
\* a file of a damaged entry, which made no event, and a dynamic entry, which
\* made the event "%"
C32_Witness ==
  /\ tpc = "done" /\ Len(tb.ring_entries) = 2 /\ Len(tb_entries) = 1
  /\ tb.ring_entries[1].offset = 0 /\ tb.ring_entries[2].offset = 1
  /\ tb_entries[1].index = 2 /\ tb_entries[1].type = "dynamic"
  /\ tb_entries[1].formatted = <<Percent>>
\* a file of a dynamic and a static entry: two events in the ring order
C32_WitnessOrder ==
  /\ tpc = "done" /\ Len(tb_entries) = 2
  /\ tb_entries[1].type = "dynamic" /\ tb_entries[2].type = "static"

(***************************************************************************)
(* Properties of batch decoding                                            *)
(***************************************************************************)
\* the rows sub lie in q, next to each other and in their order
Contains(q, sub) ==
  \E k \in 0..(Len(q) - Len(sub)) : SubSeq(q, k + 1, k + Len(sub)) = sub

\* C14: with one worker per file, a file whose decode fails does not keep any
\* other file out of the output: once the output is written, all rows of every
\* file that decodes on its own are in it, in whatever order the workers ended
\* and were collected.
C14_FailureIsolated ==
  bpc \in {"written", "exited"} =>
    \A f \in batch : \A t \in {genTracebuffer(f)} :
      t # None => Contains(csv_data, to_csv(t))

\* a file with two entries was collected first, a failed file after it
C14_Witness ==
  /\ bpc = "exited" /\ Len(tracebuffers) = 2
  /\ tracebuffers[1] # None /\ tracebuffers[2] = None
  /\ Len(tracebuffers[1].entries) = 2
  /\ Len(csv_data) = 9

C37_FailedFileFailsBatch ==
  (bpc = "exited" /\ \E f \in batch : result[f] = None) => exit_code # 0
\* the exit code set by a failed decode stays in the process of the worker
C37_FailureStaysInWorker ==
  /\ \A f \in batch :
       fut[f] # "queued" =>
         worker_exit_code[f] = (IF result[f] = None THEN ExitFailure ELSE ExitSuccess)
  /\ exit_code = ExitSuccess

\* the rows of trace entries; the info rows carry pid -1 and the timestamp 0
IsEntryRow(row) == row.pid # -1

\* C23: when several files are decoded in one batch, the rows of the trace
\* entries in the written output are in non-decreasing order of timestamp_ns,
\* in whatever order the workers ended and their results were collected.
C23_SortedOutput ==
  bpc \in {"written", "exited"} =>
    \A i, j \in 1..Len(csv_data) :
      (i < j /\ IsEntryRow(csv_data[i]) /\ IsEntryRow(csv_data[j])) =>
        csv_data[i].timestamp <= csv_data[j].timestamp

(***************************************************************************)
(* Properties of the numeric readers                                       *)
(***************************************************************************)
\* the number of the read, its bytes taken in the given order
NumberIn(order) ==
  LET b == SubSeq(arg.raw, arg.offset + 1, arg.offset + arg.size)
  IN IF arg.kind = "int" THEN int_from_bytes(b, order, arg.signed)
     ELSE IF arg.kind = "float" THEN unpack_f(b, order)
     ELSE unpack_d(b, order)

\* C25: every read of a number of more than one byte, an integer of up to 16
\* bytes or a float32 or float64, yields the value of its bytes in the byte
\* order the magic of the file declared, whatever the byte order of the host.
C25_FileByteOrder ==
  apc = "done" /\ arg.kind \in {"int", "float", "double"} =>
    val.ok /\ val.val = NumberIn(arg.endian)

\* the integers alone are read in the byte order of the file
C25_IntsFileByteOrder ==
  apc = "done" /\ arg.kind = "int" =>
    val.ok /\ val.val = NumberIn(arg.endian)

\* the floats are read in the byte order of the host
C25_FloatsHostByteOrder ==
  apc = "done" /\ arg.kind \in {"float", "double"} =>
    val.ok /\ val.val = NumberIn(arg.host)

(***************************************************************************)
(* Properties of the translation of format strings                         *)
(***************************************************************************)
\* the directive o is the %p directive m as hexadecimal: behind "0x", with the
\* flag, the width and the precision of m, or 0, 0 and .0 where m has none
PointerAsHex(f, m, o) ==
  /\ o.conversion_specifier = 120 /\ o.length = <<>>
  /\ o.start >= 3 /\ SubSeq(f, o.start - 2, o.start - 1) = <<48, 120>>
  /\ SubSeq(f, o.start, o.end)
       = <<Percent>> \o (IF m.flags = <<>> THEN <<48>> ELSE m.flags)
           \o (IF m.min_field_width = <<>> THEN <<48>> ELSE m.min_field_width)
           \o (IF m.precision = <<>> THEN <<46, 48>> ELSE m.precision) \o <<120>>

\* the directives of the translated format are those of the format, each with
\* its flag, width, precision and conversion character, and with the length
\* modifier if keep_length, without one otherwise; %p has become hexadecimal
Translated(keep_length) ==
  LET ms == finditer(arg)
      os == finditer(val)
  IN /\ Len(os) = Len(ms)
     /\ \A k \in 1..Len(ms) :
          IF ms[k].conversion_specifier = 112 THEN PointerAsHex(val, ms[k], os[k])
          ELSE /\ os[k].flags = ms[k].flags
               /\ os[k].min_field_width = ms[k].min_field_width
               /\ os[k].precision = ms[k].precision
               /\ os[k].conversion_specifier = ms[k].conversion_specifier
               /\ os[k].length = (IF keep_length THEN ms[k].length ELSE <<>>)

C26_WitnessPointer ==
  /\ apc = "done"
  /\ arg = <<37, 112>>
  /\ val = <<48, 120, 37, 48, 48, 46, 48, 120>>

(***************************************************************************)
(* Properties of the ring header by version                                *)
(***************************************************************************)
\* C33: for every version the header parser accepts (major 1, minor 0, 1 or
\* 2, any patch) the mutex width is defined, 32 bytes up to minor 1 and 64
\* bytes for minor 2, and the fields of the ring header behind the mutex and
\* the ring body are read shifted by that width: the body starts at ring
\* offset + mutex width + 96. Other versions are rejected.
C33_MutexWidthByVersion ==
  (apc = "done" /\ arg.major \in 1..2) =>
    IF arg.major = 1 /\ arg.minor <= 2
    THEN LET width == IF arg.minor <= 1 THEN 32 ELSE 64
         IN /\ val.ok /\ val.version = <<arg.major, arg.minor>>
            /\ get_const_mutex_len(val.version) = width
            /\ val.body_size = Len(arg.body) /\ val.body = arg.body
            /\ val.body = SubSeq(arg.raw, 56 + width + 96 + 1,
                                 56 + width + 96 + Len(arg.body))
            /\ val.wrapped = arg.fields.wrapped /\ val.dropped = arg.fields.dropped
            /\ val.entries_count = arg.fields.entries_count
            /\ val.next_free = arg.fields.next_free
            /\ val.last_valid = arg.fields.last_valid
            /\ val.mutex_locked = arg.locked
    ELSE ~val.ok
\* a file of version 1.1.9 was read with a 32-byte mutex that is held
C33_Witness ==
  /\ apc = "done" /\ arg.major = 1 /\ arg.minor = 1 /\ arg.patch = 9 /\ arg.locked
  /\ val.ok /\ val.mutex_locked /\ val.body = <<21, 22, 23, 24, 25>>
  /\ Len(arg.raw) = 56 + 32 + 96 + 5
\* a file of version 1.2.0 was read with a 64-byte mutex
C33_WitnessWide ==
  /\ apc = "done" /\ arg.major = 1 /\ arg.minor = 2 /\ val.ok
  /\ val.last_valid = 2 /\ Len(arg.raw) = 56 + 64 + 96 + 5

(***************************************************************************)
(* Properties of the reader on wrapping rings                             *)
(***************************************************************************)
\* the fields and the payload of an entry, without its place in the file
EntryContent(e) ==
  [body_size |-> e.body_size, body |-> e.body, offset |-> e.offset, pid |-> e.pid,
   tid |-> e.tid, timestamp_ns |-> e.timestamp_ns, args_raw |-> e.args_raw]

\* C16: a ring whose frames wrap past body_size, split at any byte (inside a
\* 4-byte head, inside a body, between a body and its trailing CRC), is read
\* as the same entries, field by field and byte by byte, as the ring holding
\* the same frames without a wrap.
C16_WrapTransparent ==
  wpc = "done" =>
    /\ wentries.ok /\ fentries.ok
    /\ Len(wentries.entries) = Len(wring.frames)
    /\ Len(fentries.entries) = Len(wring.frames)
    /\ \A i \in 1..Len(wring.frames) :
         /\ EntryContent(wentries.entries[i]) = EntryContent(fentries.entries[i])
         /\ FrameBytes(wentries.entries[i].body, wring.endian) = wring.frames[i].bytes

\* two frames; the second one is split between its body and its trailing CRC
C16_Witness ==
  /\ wpc = "done" /\ Len(wring.frames) = 2
  /\ wring.last_valid + Len(Concat(wring.frames)) = wring.body_size + 1
  /\ Len(wentries.entries) = 2

\* two frames; the head of the first one is split after its second byte
C16_WitnessHead ==
  /\ wpc = "done" /\ Len(wring.frames) = 2
  /\ wring.last_valid = wring.body_size - 2
  /\ Len(wentries.entries) = 2

(***************************************************************************)
(* Properties of crc8                                                      *)
(***************************************************************************)
\* one step of the division by x^8 + x^2 + x + 1, most significant bit first
PolyStep(c) == IF c >= 128 THEN XorBits((c * 2) % 256, 7, 8) ELSE c * 2

\* the remainder of the byte v
PolyByte(v) ==
  PolyStep(PolyStep(PolyStep(PolyStep(PolyStep(PolyStep(PolyStep(PolyStep(v))))))))

\* the table of crc8 is the table of the polynomial x^8 + x^2 + x + 1
TableIsPolynomial == \A v \in 0..255 : Crc8Table[v + 1] = PolyByte(v)

\* C17: crc8 is the CRC of x^8 + x^2 + x + 1, and in a span whose residue is 0
\* every flip of a single bit, in a data byte or in the CRC byte, gives a
\* residue that is not 0.
C17_SingleBitDetected ==
  /\ TableIsPolynomial
  /\ (cpc = "done" /\ residue = 0) => flipped_residue # 0

\* a span of MaxSpan bytes and its CRC, residue 0, after the flip of the
\* lowest bit of its last data byte
C17_Witness ==
  /\ cpc = "done" /\ residue = 0 /\ Len(span) = MaxSpan + 1
  /\ flipped[MaxSpan] = FlipBit(span[MaxSpan], 0)
  /\ flipped_residue # 0

(***************************************************************************)
(* Properties of static entries with arguments                             *)
(***************************************************************************)
\* the tracepoint declares another number of arguments than its format holds
\* directives
Mismatch ==
  spc # "off" /\ Len(sfile.logged) # DirectiveCount(sfile.logged, sfile.variant)

\* the events made of ring entry i
EventsOf(i) == {k \in 1..Len(sentries) : sentries[k].index = i}

IsPrefix(p, q) == Len(p) <= Len(q) /\ SubSeq(q, 1, Len(p)) = p

\* the message begins with "L ", ends with " R" and holds no backslash
SingleLine(m) ==
  /\ Len(m) >= 4
  /\ SubSeq(m, 1, 2) = <<76, 32>> /\ SubSeq(m, Len(m) - 1, Len(m)) = <<32, 82>>
  /\ \A i \in 1..Len(m) : m[i] # 92

\* C36: in every rendered static message, for formats with arguments and for
\* formats with zero arguments alike, each \n escape sequence of the format
\* string (a backslash and the letter n) is replaced by a single space.
C36_NewlineBecomesSpace ==
  \A k \in 1..Len(sentries) :
    (sfile.variant = "newline" /\ sentries[k].index = 1) =>
      SingleLine(sentries[k].formatted)
\* in the messages of formats with at least one argument the escape sequences
\* are replaced by a single space each
C36_WithArguments ==
  \A k \in 1..Len(sentries) :
    (sfile.variant = "newline" /\ sentries[k].index = 1 /\ sfile.logged # <<>>) =>
      SingleLine(sentries[k].formatted)
\* the message of a format with zero arguments is the format as it stands
C36_WithoutArguments ==
  \A k \in 1..Len(sentries) :
    (sfile.variant = "newline" /\ sentries[k].index = 1 /\ sfile.logged = <<>>) =>
      sentries[k].formatted = <<76, 92, 110, 92, 110, 82>>
C36_Witness ==
  /\ sfile.variant = "newline" /\ Len(sfile.logged) = 2 /\ Len(sentries) >= 1
  /\ sentries[1].index = 1 /\ SingleLine(sentries[1].formatted)
C36_WitnessWithout ==
  /\ sfile.variant = "newline" /\ sfile.logged = <<>> /\ Len(sentries) >= 1
  /\ sentries[1].index = 1 /\ sentries[1].formatted = <<76, 92, 110, 92, 110, 82>>

\* C19: a static entry whose declared argument count differs from the number
\* of conversion directives of its format (more directives, or fewer, or a
\* directive with no declared argument) becomes exactly one event whose message
\* is the error text; the entry is not dropped, no exception leaves the loop,
\* and the entry behind it is resolved as well.
C19_MismatchEmitted ==
  Mismatch =>
    /\ spc # "raised"
    /\ (spos > 1 =>
          /\ Cardinality(EventsOf(1)) = 1
          /\ \A k \in EventsOf(1) : IsPrefix(ExtractingFailed, sentries[k].formatted))
    /\ (spc = "done" => Cardinality(EventsOf(2)) = 1 /\ Len(sentries) = 2)

\* the loop is over for a tracepoint that declares no argument but whose
\* format holds a directive
C19_Witness ==
  /\ spc = "done" /\ Mismatch
  /\ sfile.logged = <<>> /\ sfile.variant = "more"
  /\ Len(sentries) = 2
  /\ IsPrefix(ExtractingFailed, sentries[1].formatted)
  /\ sentries[2].formatted = <<111, 107>>

\* the bytes the encoding of an argument takes
ClaimedSize(a) ==
  CASE a.tag \in {99, 67}        -> 1
    [] a.tag \in {119, 87}       -> 2
    [] a.tag \in {105, 73}       -> 4
    [] a.tag \in {108, 76, 112}  -> 8
    [] a.tag \in {113, 81}       -> 16
    [] a.tag \in {115, 120}      -> 4 + Len(a.raw)

RECURSIVE SumSizes(_, _)
SumSizes(as, n) == IF n = 0 THEN 0 ELSE SumSizes(as, n - 1) + ClaimedSize(as[n])

\* the first n arguments came out as they were logged, each read at the sum
\* of the sizes of the arguments before it
DecodedUpTo(x, as, n) ==
  /\ Len(x.args) = n /\ Len(x.at) = n
  /\ \A i \in 1..n : x.args[i] = as[i].value /\ x.at[i] = SumSizes(as, i - 1)

\* C20: the arguments of a tracepoint whose format holds one directive per
\* argument are read in tag order, the i-th at the sum of the encoded sizes of
\* the arguments before it and with the width and signedness of its tag, so
\* every integer comes out as it was logged; when args_raw ends one byte early
\* the last read fails and the message is the fallback text.
C20_ArgsDecoded ==
  (spc # "off" /\ spos > 1 /\ ~Mismatch) =>
    LET x  == sargs[1]
        as == sfile.logged
    IN IF sfile.cut = 0
       THEN x.ok /\ DecodedUpTo(x, as, Len(as))
       ELSE /\ ~x.ok /\ DecodedUpTo(x, as, Len(as) - 1)
            /\ IsPrefix(ExtractingFailed, sentries[1].formatted)

\* a negative 128-bit integer and a string behind it were decoded
C20_Witness ==
  /\ spc = "done" /\ ~Mismatch /\ sfile.cut = 0 /\ sfile.endian = "big"
  /\ Len(sfile.logged) = 2
  /\ sfile.logged[1].tag = 81 /\ sfile.logged[1].value.neg
  /\ sfile.logged[2].tag = 115 /\ sfile.logged[2].raw = <<65, 0>>
  /\ sargs[1].ok /\ sargs[1].at = <<0, 16>>
  /\ sargs[1].args[1] = IntValue(TRUE, Zeros(15) \o <<128>>)
  /\ sargs[1].args[2] = StrValue(<<65>>)

\* args_raw ended inside the last argument
C20_WitnessPastEnd ==
  /\ spc = "done" /\ ~Mismatch /\ sfile.cut = 1 /\ Len(sfile.logged) = 2
  /\ ~sargs[1].ok /\ Len(sargs[1].args) = 1

(***************************************************************************)
(* Properties of a worker decoding several files                           *)
(***************************************************************************)
\* C22: whatever file the worker decoded before (of any byte order and format
\* version, accepted or rejected), genTracebuffer returns for a file what the
\* file yields when its bytes are read in the byte order of its own magic and
\* with the mutex width of its own version; the same file yields the same
\* entries in every position of the queue.
C22_OwnHeaderDecides ==
  /\ \A i \in 1..Len(wresults) : wresults[i].result = genTracebuffer(wresults[i].file)
  /\ \A i, j \in 1..Len(wresults) :
       wresults[i].file = wresults[j].file => wresults[i].result = wresults[j].result
\* a big-endian file of format 1.1 decoded, then a little-endian one of format 1.2
C22_Witness ==
  /\ wkpc = "idle" /\ Len(wresults) = 2
  /\ wresults[1].file = FileV11("big") /\ wresults[1].result # None
  /\ wresults[2].result # None /\ Len(wresults[2].result.entries) = 2
  /\ current_Endian = "little" /\ current_version = <<1, 2>>
\* a file rejected for its version after a file of the other byte order
C22_WitnessRejected ==
  /\ wkpc = "idle" /\ Len(wresults) = 2
  /\ wresults[1].result # None /\ wresults[2].result = None
  /\ wresults[2].file.damage = "minor"
  /\ current_Endian = "big" /\ current_version = <<1, 2>>

(***************************************************************************)
(* Properties of decode                                                    *)
(***************************************************************************)
\* the text the claim gives for one character
ClaimedChar(ch) ==
  IF ch = 0 \/ ~CategoryC(ch) THEN <<ch>>
  ELSE IF ch = 10 THEN <<92, 110>>
  ELSE IF ch = 9 THEN <<92, 116>>
  ELSE IF ch = 13 THEN <<92, 114>>
  ELSE <<92, 120, HexDigit((ch \div 16) % 16), HexDigit(ch % 16)>>

RECURSIVE ClaimedText(_)
ClaimedText(data) ==
  IF data = <<>> THEN <<>> ELSE ClaimedChar(Head(data)) \o ClaimedText(Tail(data))

\* C24 (as claimed): decode maps every byte string to the text that keeps NUL
\* and every printable character of the input unchanged and in order and
\* holds, for every other control character, backslash-n, backslash-t,
\* backslash-r or backslash-x and two hex digits; the empty input maps to the
\* empty string.
C24_DecodeEscapes ==
  apc = "done" =>
    /\ val = ClaimedText(utf8_ignore(arg, 1))
    /\ (arg = <<>> => val = <<>>)

\* the code point in hex, two digits at least
HexOfCodePoint(ch) ==
  LET D(k) == HexDigit((ch \div (16 ^ k)) % 16)
  IN IF ch < 256 THEN <<D(1), D(0)>>
     ELSE IF ch < 4096 THEN <<D(2), D(1), D(0)>>
     ELSE IF ch < 65536 THEN <<D(3), D(2), D(1), D(0)>>
     ELSE IF ch < 1048576 THEN <<D(4), D(3), D(2), D(1), D(0)>>
     ELSE <<D(5), D(4), D(3), D(2), D(1), D(0)>>

RECURSIVE AmendedText(_)
AmendedText(data) ==
  IF data = <<>> THEN <<>>
  ELSE (IF Head(data) \in {0, 9, 10, 13} \/ ~CategoryC(Head(data))
        THEN ClaimedChar(Head(data))
        ELSE <<92, 120>> \o HexOfCodePoint(Head(data)))
       \o AmendedText(Tail(data))

\* C24 (amended): decode drops the bytes that are no part of a well-formed
\* UTF-8 sequence and maps the characters of the rest in order: NUL and every
\* character outside category C are kept, newline, tab and carriage return
\* become backslash-n, backslash-t, backslash-r, and any other character of
\* category C becomes backslash-x and its code point in hex, two digits up to
\* U+00FF and more above; the empty input maps to the empty string.
C24_DecodeEscapesWide ==
  apc = "done" =>
    /\ val = AmendedText(utf8_ignore(arg, 1))
    /\ (arg = <<>> => val = <<>>)
    /\ (arg = <<65, 0, 10>> => val = <<65, 0, 92, 110>>)
    /\ (arg = <<65, 255, 27>> => val = <<65, 92, 120, 49, 98>>)
    /\ (arg = <<195, 169, 226>> => val = <<233>>)
    /\ (arg = <<194, 128>> => val = <<92, 120, 56, 48>>)
    /\ (arg = <<226, 128, 139>> => val = <<92, 120, 50, 48, 48, 98>>)
\* U+200B ZERO WIDTH SPACE, a character of category Cf
C24_Witness ==
  apc = "done" /\ arg = <<226, 128, 139>> /\ val = <<92, 120, 50, 48, 48, 98>>

(***************************************************************************)
(* Properties of the recover-all mode                                      *)
(***************************************************************************)
\* the same ring read in recover-all mode
RecoverAll == RingEntries([rb EXCEPT !.recover_all = TRUE])

\* C38: for the same file bytes, the list of entries returned by the ring walk
\* in normal mode is a prefix of the list returned in recover-all mode:
\* recover-all only adds entries found after the cursor has reached next_free.
C38_NormalIsPrefix ==
  (rpc = "done" /\ ~rb.recover_all) =>
    /\ RecoverAll.ok
    /\ IsPrefix(entries, RecoverAll.entries)
\* where the walk in recover-all mode comes to its end, the entries of normal
\* mode are a prefix of its entries
C38_PrefixWhereRecovered ==
  (rpc = "done" /\ ~rb.recover_all /\ RecoverAll.ok) =>
    IsPrefix(entries, RecoverAll.entries)
\* normal mode returned one entry and recover-all mode returns two
C38_Witness ==
  /\ rpc = "done" /\ ~rb.recover_all /\ Len(entries) = 1
  /\ RecoverAll.ok /\ Len(RecoverAll.entries) = 2

====
